---- MODULE Spec2Model ----
(***************************************************************************)
(* The grader-side dispatch and retry engine of quark                      *)
(* (src/grader/queue.go): the three-priority Queue with its readiness      *)
(* channel, the InflightMonitor with one supervisor goroutine per          *)
(* dispatched attempt, and the RunContext life cycle (Requeue, Close).     *)
(*                                                                         *)
(* Every goroutine is a thread with a program counter.  One step of a      *)
(* thread is one access to shared state (a channel operation, a section    *)
(* under the monitor's mutex, a write to a RunContext field).              *)
(*                                                                         *)
(* The RunPostProcessor (same file) with its goroutine and its listeners,  *)
(* and, on the runner's side, Grade with worseVerdict: the compile phase,  *)
(* the execution and validation of the cases, and the scores, in           *)
(* floating-point arithmetic of reduced precision.                         *)
(***************************************************************************)
EXTENDS Integers, Sequences, FiniteSets, TLC

VARIABLES
    cfg,        \* the configuration: channelLength, MaxGradeRetries
    runs,       \* Queue.runs: one FIFO per priority
    ready,      \* Queue.ready: number of tokens in the readiness channel
    run,        \* the RunContext objects
    mapping,    \* InflightMonitor.mapping: attempt id -> InflightRun
    inflight,   \* the InflightRun objects (their channels)
    th,         \* the goroutines: program counter and locals
    post,       \* the RunPostProcessor, its goroutine and its listeners
    grade       \* the runner: one call of Grade, its locals and its result

vars == <<cfg, runs, ready, run, mapping, inflight, th, post, grade>>

----------------------------------------------------------------------------
(* Bounds of the checked configurations *)

\* FIFO depth (QueueManager.channelLength) and retry budget
\* (Config.Grader.MaxGradeRetries) of each checked configuration
ConcDepth == 1
ConcRetries == 2

SeqDepth == 1
SeqRetries == 3

FifoDepth == 2
FifoRetries == 2

QueueDepth == 1
QueueRetries == 2

CancelDepth == 1
CancelRetries == 2

TimeoutDepth == 1
TimeoutRetries == 2
PostDepth == 1
PostRetries == 1
RemoveDepth == 1
RemoveRetries == 2
TokenDepth == 1
TokenRetries == 2

\* the runner's inputs: the case weights are the multiples of 1 / WeightUnit
\* and the scores of CalculateScore the multiples of 1 / ScoreUnit
WeightUnit == 4
ScoreUnit == 2

\* the runner's arithmetic: floating-point numbers with SignificandBits
\* significant bits (float64 has 53) that are multiples of
\* 2^(-FractionBits)
SignificandBits == 4
FractionBits == 6

\* the wall time of a case, and the overall wall-time limit, in seconds
WallSeconds == 2
WallLimitSeconds == 3

\* the entries of a zip archive, the bytes of an entry, the largest
\* Limits.OutputLimit, and the width of the unsigned sizes (it stands for 64)
ZipLen == 2
ContentLen == 2
OutputLimitMax == 1
SizeBits == 8

\* the longest buffer the transport reads the request body with, and the
\* longest reader the blockingReader is supplied with
BufLen == 2
ReaderLen == 3

QueuePriorityHigh == 0
QueuePriorityNormal == 1
QueuePriorityLow == 2

Priorities == {QueuePriorityHigh, QueuePriorityNormal, QueuePriorityLow}

\* the priorities a run is injected with (Normal, or Low for slow problems
\* and rejudges)
InjectPriorities == {QueuePriorityNormal, QueuePriorityLow}

NoRun == 0
NoAttempt == <<0, 0>>

----------------------------------------------------------------------------
(* Threads *)

AdderOf(r) == <<"add", r, 0, 0>>
RunnerOf(d) == <<"runner", d, 0, 0>>
SupervisorOf(rec) == <<"sup", rec[1], rec[2], rec[3]>>
RecordOf(t) == <<t[2], t[3], t[4]>>

IsSupervisor(t) == t[1] = "sup"

Locals(p, r) ==
    [pc |-> p, run |-> r, lastAttempt |-> FALSE, tmp |-> 0,
     att |-> NoAttempt, postProcessor |-> FALSE,
     old |-> 0,     \* the attempt id the run had when Requeue was entered
     why |-> "",    \* the call site run.Close() was reached from
     returned |-> 0]  \* history: the calls of Requeue a supervisor made

\* where a thread continues when Requeue or Close returns
Return(t) ==
    IF IsSupervisor(t)
    THEN [Locals("send", th[t].run) EXCEPT !.returned = th[t].returned + 1]
    ELSE Locals("idle", NoRun)

----------------------------------------------------------------------------
(* RunContext *)

NewEmptyRunContext(p, tries) ==
    [AttemptID |-> 1, Verdict |-> "JE", Priority |-> p, tries |-> tries,
     closed |-> FALSE, input |-> TRUE, monitor |-> FALSE,
     readyClosed |-> 0, postProcessed |-> 0, released |-> 0,
     \* history: the Requeue calls that decremented the tries of the open
     \* run, and whether a lastAttempt call went on to enqueue it
     requeues |-> 0, jeRetried |-> FALSE]

\* the attempt ids of run r are <<r, 1>>, <<r, 2>>, ...
AttemptOf(r) == <<r, run[r].AttemptID>>

----------------------------------------------------------------------------
(* Queue *)

\* a variant for FIFOs without a capacity
FifoNeverFull(p) == FALSE

FifoFull(p) == Len(runs[p]) >= cfg.channelLength

\* a variant of the send that puts the run in front
SendFront(q, r) == <<r>> \o q

\* ch <- r on a buffered channel with contents q
Send(q, r) == Append(q, r)

\* enqueueBlocking, first send: queue.runs[run.Priority] <- run
EnqueueBlockingRun(t) ==
    /\ th[t].pc = "new"
    /\ ~FifoFull(run[th[t].run].Priority)
    /\ runs' = [runs EXCEPT ![run[th[t].run].Priority] = Send(@, th[t].run)]
    /\ th' = [th EXCEPT ![t].pc = "token"]
    /\ UNCHANGED <<cfg, post, grade, ready, run, mapping, inflight>>

\* variants that drop the token, and that send it twice
SignalNothing(n) == n

SignalTwice(n) == n + 2

\* queue.ready <- struct{}{}: the tokens in the channel after the send
Signal(n) == n + 1

\* enqueueBlocking, second send: queue.ready <- struct{}{}
EnqueueBlockingReady(t) ==
    /\ th[t].pc = "token"
    /\ ready < 3 * cfg.channelLength
    /\ ready' = Signal(ready)
    /\ th' = [th EXCEPT ![t] = Locals("added", NoRun)]
    /\ UNCHANGED <<cfg, post, grade, runs, run, mapping, inflight>>

\* GetRun, the select on queue.ready
GetRunReady(t) ==
    /\ th[t].pc = "idle"
    /\ ready > 0
    /\ ready' = ready - 1
    /\ th' = [th EXCEPT ![t].pc = "scan", ![t].tmp = QueuePriorityHigh]
    /\ UNCHANGED <<cfg, post, grade, runs, run, mapping, inflight>>

\* a variant of the select that takes a token before it looks at the
\* close-notifier
TokenTakenThenCancelled(n) == IF n > 0 THEN n - 1 ELSE n

\* the tokens in queue.ready after the select took the close-notifier case
TokensAfterCancel(n) == n

\* GetRun, the select on the close-notifier: return nil, nil, false
GetRunCancel(t) ==
    /\ th[t].pc = "idle"
    /\ ready' = TokensAfterCancel(ready)
    /\ th' = [th EXCEPT ![t] = Locals("cancelled", NoRun)]
    /\ UNCHANGED <<cfg, post, grade, runs, run, mapping, inflight>>

\* the caller whose GetRun was cancelled calls GetRun again
GetRunAgain(t) ==
    /\ th[t].pc = "cancelled"
    /\ th' = [th EXCEPT ![t] = Locals("idle", NoRun)]
    /\ UNCHANGED <<cfg, post, grade, runs, ready, run, mapping, inflight>>

\* a variant of the loop that steps over an index
SkipIndex(i) == i + 2

\* the index GetRun's loop looks at after index i
NextIndex(i) == i + 1

\* GetRun, one iteration of the loop over queue.runs: a non-blocking receive
GetRunScan(t) ==
    /\ th[t].pc = "scan"
    /\ LET i == th[t].tmp IN
       IF runs[i] # <<>>
       THEN /\ runs' = [runs EXCEPT ![i] = Tail(@)]
            /\ th' = [th EXCEPT ![t].pc = "add", ![t].run = Head(runs[i])]
       ELSE /\ runs' = runs
            /\ th' = IF NextIndex(i) \in Priorities
                     THEN [th EXCEPT ![t].tmp = NextIndex(i)]
                     ELSE [th EXCEPT ![t].pc = "panic"]
    /\ UNCHANGED <<cfg, post, grade, ready, run, mapping, inflight>>

----------------------------------------------------------------------------
(* InflightMonitor *)

\* An InflightRun object lives as long as the mapping or its supervisor
\* goroutine refers to it; a goroutine that returned is gone.
Live(infl, m, threads) ==
    [rec \in {x \in DOMAIN infl :
                 \/ \E a \in DOMAIN m : m[a] = x
                 \/ SupervisorOf(x) \in threads} |-> infl[rec]]

\* the name of a new InflightRun object of run r: the run, its attempt id,
\* and a number that tells apart the objects made for the same attempt
NewRecord(r) ==
    <<r, run[r].AttemptID,
      CHOOSE k \in 1..(Cardinality(DOMAIN inflight) + 1) :
         /\ <<r, run[r].AttemptID, k>> \notin DOMAIN inflight
         /\ \A j \in 1..(k - 1) : <<r, run[r].AttemptID, j>> \in DOMAIN inflight>>

\* removed is history: Remove was called for the attempt of the record
NewInflightRun(r) ==
    [run |-> r, connected |-> 0, ready |-> 0, timeout |-> 0, closed |-> FALSE,
     removed |-> FALSE]

\* InflightMonitor.Add, called by GetRun with the run it received; the
\* supervisor goroutine starts waiting for the runner to connect
MonitorAdd(t) ==
    /\ th[t].pc = "add"
    /\ LET r == th[t].run
           rec == NewRecord(r) IN
       /\ run' = [run EXCEPT ![r].monitor = TRUE]
       /\ mapping' = (AttemptOf(r) :> rec) @@ mapping
       /\ th' = [th EXCEPT ![t].pc = "dispatched", ![t].run = NoRun,
                           ![t].tmp = 0, ![t].att = AttemptOf(r)]
                   @@ (SupervisorOf(rec) :> Locals("waitConnected", r))
       /\ inflight' = Live(inflight @@ (rec :> NewInflightRun(r)),
                           mapping', DOMAIN th')
    /\ UNCHANGED <<cfg, post, grade, runs, ready>>

\* a non-blocking send on a channel of capacity 1
Pulse(n) == 1

\* InflightMonitor.Remove: the three things it changes
RemoveRun(a) ==
    IF a \in DOMAIN mapping
    THEN [run EXCEPT ![inflight[mapping[a]].run].monitor = FALSE]
    ELSE run

RemoveMapping(a) == [x \in DOMAIN mapping \ {a} |-> mapping[x]]

\* a variant of Remove that signals only the connection
RemoveSignalsConnected(a) ==
    IF a \in DOMAIN mapping
    THEN Live([inflight EXCEPT ![mapping[a]].connected = Pulse(@),
                               ![mapping[a]].removed = TRUE],
              RemoveMapping(a), DOMAIN th)
    ELSE inflight

RemoveInflight(a) ==
    IF a \in DOMAIN mapping
    THEN Live([inflight EXCEPT ![mapping[a]].connected = Pulse(@),
                               ![mapping[a]].ready = Pulse(@),
                               ![mapping[a]].removed = TRUE],
              RemoveMapping(a), DOMAIN th)
    ELSE inflight

\* the supervisor's select: the runner connected
SupervisorConnected(t) ==
    /\ th[t].pc = "waitConnected"
    /\ inflight[RecordOf(t)].connected > 0
    /\ inflight' = [inflight EXCEPT ![RecordOf(t)].connected = 0]
    /\ th' = [th EXCEPT ![t].pc = "waitReady"]
    /\ UNCHANGED <<cfg, post, grade, runs, ready, run, mapping>>

\* the supervisor's inner select: the attempt was removed
SupervisorReady(t) ==
    /\ th[t].pc = "waitReady"
    /\ inflight[RecordOf(t)].ready > 0
    /\ inflight' = [inflight EXCEPT ![RecordOf(t)].ready = 0]
    /\ th' = [th EXCEPT ![t].pc = "close"]
    /\ UNCHANGED <<cfg, post, grade, runs, ready, run, mapping>>

\* either select: time.After fires; monitor.timeout calls run.Requeue(false).
\* The timer starts when the select is entered, and a goroutine parked in a
\* select is resumed by the first case that becomes ready: the timer wins
\* only while the channel of the other case is empty.
SupervisorTimer(t) ==
    /\ \/ th[t].pc = "waitConnected" /\ inflight[RecordOf(t)].connected = 0
       \/ th[t].pc = "waitReady" /\ inflight[RecordOf(t)].ready = 0
    /\ th' = [th EXCEPT ![t].pc = "rq1", ![t].lastAttempt = FALSE]
    /\ UNCHANGED <<cfg, post, grade, runs, ready, run, mapping, inflight>>

\* a variant of monitor.timeout that sends nothing
SupervisorSendsNothing(t) ==
    /\ th[t].pc = "send"
    /\ th' = [th EXCEPT ![t].pc = "close"]
    /\ UNCHANGED <<cfg, post, grade, runs, ready, run, mapping, inflight>>

\* monitor.timeout, after Requeue returned: timeout <- struct{}{}
SupervisorSend(t) ==
    /\ th[t].pc = "send"
    /\ inflight' = [inflight EXCEPT ![RecordOf(t)].timeout = @ + 1]
    /\ th' = [th EXCEPT ![t].pc = "close"]
    /\ UNCHANGED <<cfg, post, grade, runs, ready, run, mapping>>

\* the supervisor's last statement: close(inflight.timeout)
SupervisorClose(t) ==
    /\ th[t].pc = "close"
    /\ th' = [u \in DOMAIN th \ {t} |-> th[u]]
    /\ inflight' = Live([inflight EXCEPT ![RecordOf(t)].closed = TRUE],
                        mapping, DOMAIN th')
    /\ UNCHANGED <<cfg, post, grade, runs, ready, run, mapping>>

\* InflightMonitor.Get, called when the runner posts to the results endpoint
\* of the attempt it was given
MonitorGet(t) ==
    /\ th[t].pc = "dispatched"
    /\ LET a == th[t].att IN
       IF a \in DOMAIN mapping
       THEN /\ inflight' = [inflight EXCEPT ![mapping[a]].connected = Pulse(@)]
            /\ th' = [th EXCEPT ![t].pc = "graded",
                                ![t].run = inflight[mapping[a]].run]
       ELSE /\ inflight' = inflight
            /\ th' = [th EXCEPT ![t] = Locals("idle", NoRun)]
    /\ UNCHANGED <<cfg, post, grade, runs, ready, run, mapping>>

\* InflightMonitor.Get, called once more for the attempt by the runner that
\* is being served
MonitorGetAgain(t) ==
    /\ th[t].pc = "graded"
    /\ th[t].att \in DOMAIN mapping
    /\ inflight' = [inflight EXCEPT ![mapping[th[t].att]].connected = Pulse(@)]
    /\ UNCHANGED <<cfg, post, grade, runs, ready, run, mapping, th>>

----------------------------------------------------------------------------
(* The results endpoint: what the handler does with the run Get returned *)

ResultVerdicts == {"AC", "JE"}

\* the runner that was handed an attempt never posts its results
RunnerGone(t) ==
    /\ th[t].pc = "dispatched"
    /\ th' = [th EXCEPT ![t] = Locals("idle", NoRun)]
    /\ UNCHANGED <<cfg, post, grade, runs, ready, run, mapping, inflight>>

\* the upload was read: the result is recorded and the run closed
HandlerClose(t) ==
    /\ th[t].pc = "graded"
    /\ \E v \in ResultVerdicts :
          run' = [run EXCEPT ![th[t].run].Verdict = v]
    /\ th' = [th EXCEPT ![t].pc = "cl1", ![t].why = "direct"]
    /\ UNCHANGED <<cfg, post, grade, runs, ready, mapping, inflight>>

\* the upload failed (lastAttempt = FALSE) or the runner sent a JE
\* (lastAttempt = TRUE): the run is requeued
HandlerRequeue(t) ==
    /\ th[t].pc = "graded"
    /\ \E lastAttempt \in BOOLEAN :
          th' = [th EXCEPT ![t].pc = "rq1", ![t].lastAttempt = lastAttempt]
    /\ UNCHANGED <<cfg, post, grade, runs, ready, run, mapping, inflight>>

----------------------------------------------------------------------------
(* RunContext.Requeue *)

\* if run.monitor != nil { run.monitor.Remove(run.Run.AttemptID) }
RequeueRemove(t) ==
    /\ th[t].pc = "rq1"
    /\ LET r == th[t].run IN
       IF run[r].monitor
       THEN /\ run' = RemoveRun(AttemptOf(r))
            /\ inflight' = RemoveInflight(AttemptOf(r))
            /\ mapping' = RemoveMapping(AttemptOf(r))
       ELSE UNCHANGED <<run, inflight, mapping>>
    /\ th' = [th EXCEPT ![t].pc = "rq2", ![t].old = run[th[t].run].AttemptID]
    /\ UNCHANGED <<cfg, post, grade, runs, ready>>

\* run.tries -= 1, the load
RequeueLoadTries(t) ==
    /\ th[t].pc = "rq2"
    /\ th' = [th EXCEPT ![t].pc = "rq2w", ![t].tmp = run[th[t].run].tries]
    /\ UNCHANGED <<cfg, post, grade, runs, ready, run, mapping, inflight>>

\* variants of the decrement and of the test that follows it
DecrementTwice(n) == n - 2

ExhaustedAtOne(n) == n <= 1

ExhaustedBelowZero(n) == n < 0

Decrement(n) == n - 1

Exhausted(n) == n <= 0

\* run.tries -= 1, the store; if run.tries <= 0 { run.Close(); return false }
RequeueStoreTries(t) ==
    /\ th[t].pc = "rq2w"
    /\ run' = [run EXCEPT ![th[t].run].tries = Decrement(th[t].tmp),
                          ![th[t].run].requeues = @ + 1]
    /\ th' = IF Exhausted(Decrement(th[t].tmp))
             THEN [th EXCEPT ![t].pc = "cl1", ![t].tmp = 0,
                             ![t].why = "exhausted"]
             ELSE [th EXCEPT ![t].pc = "rq3", ![t].tmp = 0]
    /\ UNCHANGED <<cfg, post, grade, runs, ready, mapping, inflight>>

\* a variant without the clamp
ClampNothing(lastAttempt, n) == n

\* if lastAttempt { run.tries = 1 }
ClampTries(lastAttempt, n) == IF lastAttempt THEN 1 ELSE n

\* Run.UpdateAttemptID
UpdateAttemptID(a) == a + 1

\* a variant that requeues a run where it came from
KeepPriority(p) == p

\* the priority Requeue enqueues a run of priority p with
RequeuePriority(p) == QueuePriorityHigh

\* the clamp, the new attempt id, and enqueue's select: the send on the FIFO,
\* or, the FIFO being full, run.Close(); return false
RequeueEnqueue(t) ==
    /\ th[t].pc = "rq3"
    /\ LET r == th[t].run IN
       /\ run' = [run EXCEPT
                    ![r].tries = ClampTries(th[t].lastAttempt, @),
                    ![r].AttemptID = UpdateAttemptID(@),
                    ![r].jeRetried = @ \/ th[t].lastAttempt]
       /\ IF FifoFull(RequeuePriority(run[r].Priority))
          THEN /\ runs' = runs
               /\ th' = [th EXCEPT ![t].pc = "cl1", ![t].why = "full"]
          ELSE /\ runs' = [runs EXCEPT
                              ![RequeuePriority(run[r].Priority)] = Send(@, r)]
               /\ th' = [th EXCEPT ![t].pc = "rq4"]
    /\ UNCHANGED <<cfg, post, grade, ready, mapping, inflight>>

\* enqueue, after the send on the FIFO: queue.ready <- struct{}{}; return true
EnqueueReady(t) ==
    /\ th[t].pc = "rq4"
    /\ ready < 3 * cfg.channelLength
    /\ ready' = Signal(ready)
    /\ th' = [th EXCEPT ![t] = Return(t)]
    /\ UNCHANGED <<cfg, post, grade, runs, run, mapping, inflight>>

----------------------------------------------------------------------------
(* RunContext.Close *)

\* atomic.SwapInt32(&run.closed, 1): an already closed run returns at once
CloseSwap(t) ==
    /\ th[t].pc = "cl1"
    /\ IF run[th[t].run].closed
       THEN /\ run' = run
            /\ th' = [th EXCEPT ![t] = Return(t)]
       ELSE /\ run' = [run EXCEPT ![th[t].run].closed = TRUE]
            /\ th' = [th EXCEPT ![t].pc = "cl2"]
    /\ UNCHANGED <<cfg, post, grade, runs, ready, mapping, inflight>>

\* the post-processor is taken from run.monitor
PostProcessorOf(monitor) == monitor

\* a variant of Close that keeps the input
KeepInput(input, n) == n

\* if run.input != nil { run.input.Release(run.input) }: the calls of
\* Release after this one, n having been made before
ReleaseInput(input, n) == IF input THEN n + 1 ELSE n

\* if run.monitor != nil { postProcessor = ...; Remove(AttemptID) }, then
\* the input is released
CloseRelease(t) ==
    /\ th[t].pc = "cl2"
    /\ LET r == th[t].run
           after == IF run[r].monitor THEN RemoveRun(AttemptOf(r)) ELSE run IN
       /\ run' = [after EXCEPT
                    ![r].input = FALSE,
                    ![r].released = ReleaseInput(run[r].input, @)]
       /\ inflight' = IF run[r].monitor
                      THEN RemoveInflight(AttemptOf(r)) ELSE inflight
       /\ mapping' = IF run[r].monitor
                     THEN RemoveMapping(AttemptOf(r)) ELSE mapping
       /\ th' = [th EXCEPT ![t].pc = "cl3",
                   ![t].postProcessor = PostProcessorOf(run[r].monitor)]
    /\ UNCHANGED <<cfg, post, grade, runs, ready>>

\* a variant that hands the run to the post-processor whether or not the
\* artifacts were written
PostProcessesAnyway(ok, postProcessor) == postProcessor

\* whether Close, the writes having succeeded (ok) or not, goes on to call
\* PostProcess
PostProcesses(ok, postProcessor) == ok /\ postProcessor

\* details.json, logs.txt.gz and tracing.json.gz are written: any of the
\* writes can fail, and Close then returns; otherwise close(run.ready)
ClosePersist(t) ==
    /\ th[t].pc = "cl3"
    /\ \E ok \in BOOLEAN :
          /\ run' = IF ok
                    THEN [run EXCEPT ![th[t].run].readyClosed = @ + 1]
                    ELSE run
          /\ th' = IF PostProcesses(ok, th[t].postProcessor)
                   THEN [th EXCEPT ![t].pc = "cl4"]
                   ELSE [th EXCEPT ![t] = Return(t)]
    /\ UNCHANGED <<cfg, post, grade, runs, ready, mapping, inflight>>

FinishedRunsCap == 1
ListenerChanCap == 1

\* postProcessor.PostProcess(&run.RunInfo): postProcessor.finishedRuns <- run
ClosePostProcess(t) ==
    /\ th[t].pc = "cl4"
    /\ ~post.closed
    /\ Len(post.finishedRuns) < FinishedRunsCap
    /\ post' = [post EXCEPT !.finishedRuns = Send(@, th[t].run),
                            !.posted = Append(@, th[t].run)]
    /\ run' = [run EXCEPT ![th[t].run].postProcessed = @ + 1]
    /\ th' = [th EXCEPT ![t] = Return(t)]
    /\ UNCHANGED <<cfg, grade, runs, ready, mapping, inflight>>

\* PostProcess after RunPostProcessor.Close: the send on the closed channel
\* panics, nothing is sent
ClosePostProcessPanic(t) ==
    /\ th[t].pc = "cl4"
    /\ post.closed
    /\ th' = [th EXCEPT ![t] = Locals("panic", th[t].run)]
    /\ UNCHANGED <<cfg, grade, runs, ready, run, mapping, inflight, post>>

----------------------------------------------------------------------------
(* RunPostProcessor *)

\* the post-processor and the callers ls of AddListener, none of which has
\* called yet.  posted, registered and since are history: the runs in the
\* order PostProcess sent them, the listeners in the order AddListener sent
\* them, and how many runs had been sent when AddListener(l) returned.
\* closed says that finishedRuns has been closed, and closedListeners is
\* history: the listener channels in the order they were closed.
NewRunPostProcessor(ls) ==
    [finishedRuns |-> <<>>, listenerChan |-> <<>>, listeners |-> <<>>,
     added |-> {}, delivered |-> [l \in ls |-> <<>>],
     pc |-> "select", cur |-> NoRun, idx |-> 0,
     reg |-> [l \in ls |-> "new"],
     posted |-> <<>>, registered |-> <<>>, since |-> [l \in ls |-> 0],
     closed |-> FALSE, closedListeners |-> <<>>]

\* AddListener: postProcessor.listenerChan <- runPostProcessorListener{...}
AddListenerSend(l) ==
    /\ post.reg[l] = "new"
    /\ Len(post.listenerChan) < ListenerChanCap
    /\ post' = [post EXCEPT !.listenerChan = Send(@, l),
                            !.registered = Append(@, l),
                            !.reg[l] = "sent"]
    /\ UNCHANGED <<cfg, grade, runs, ready, run, mapping, inflight, th>>

\* a variant of AddListener that does not wait
AckedAtOnce(l) == TRUE

\* AddListener's select: case <-added
Acked(l) == l \in post.added

\* AddListener returns
AddListenerReturn(l) ==
    /\ post.reg[l] = "sent"
    /\ Acked(l)
    /\ post' = [post EXCEPT !.reg[l] = "done", !.since[l] = Len(post.posted)]
    /\ UNCHANGED <<cfg, grade, runs, ready, run, mapping, inflight, th>>

\* a variant that puts a new listener in front
RegisterFirst(ls, l) == <<l>> \o ls

\* append(postProcessor.listeners, *wrappedListener.listener)
Register(ls, l) == Append(ls, l)

\* run(), case wrappedListener := <-postProcessor.listenerChan
PostProcessorRegister ==
    /\ post.pc = "select"
    /\ post.listenerChan # <<>>
    /\ post' = [post EXCEPT
                   !.listenerChan = Tail(@),
                   !.listeners = Register(@, Head(post.listenerChan)),
                   !.added = @ \cup {Head(post.listenerChan)}]
    /\ UNCHANGED <<cfg, grade, runs, ready, run, mapping, inflight, th>>

\* run(), case run, ok := <-postProcessor.finishedRuns
PostProcessorReceive ==
    /\ post.pc = "select"
    /\ post.finishedRuns # <<>>
    /\ post' = IF post.listeners = <<>>
               THEN [post EXCEPT !.finishedRuns = Tail(@)]
               ELSE [post EXCEPT !.finishedRuns = Tail(@),
                                 !.pc = "deliver",
                                 !.cur = Head(post.finishedRuns),
                                 !.idx = 1]
    /\ UNCHANGED <<cfg, grade, runs, ready, run, mapping, inflight, th>>

\* run(), for _, listener := range postProcessor.listeners { listener <- run }
\* one iteration; the listener takes the run from its channel
PostProcessorDeliver ==
    /\ post.pc = "deliver"
    /\ LET l == post.listeners[post.idx] IN
       post' = IF post.idx < Len(post.listeners)
               THEN [post EXCEPT !.delivered[l] = Append(@, post.cur),
                                 !.idx = @ + 1]
               ELSE [post EXCEPT !.delivered[l] = Append(@, post.cur),
                                 !.pc = "select", !.cur = NoRun, !.idx = 0]
    /\ UNCHANGED <<cfg, grade, runs, ready, run, mapping, inflight, th>>

PostProcessorStep ==
    \/ PostProcessorRegister
    \/ PostProcessorReceive
    \/ PostProcessorDeliver

\* RunPostProcessor.Close, called once: finishedRuns is closed, what is in
\* its buffer stays there
RunPostProcessorClose ==
    /\ ~post.closed
    /\ post' = [post EXCEPT !.closed = TRUE]
    /\ UNCHANGED <<cfg, grade, runs, ready, run, mapping, inflight, th>>

\* a variant of ClosedSeen that does not wait for the buffer to be drained
ClosedSeenAtOnce == post.closed

\* a receive from finishedRuns gives !ok: the channel is closed and its
\* buffer is empty
ClosedSeen == post.closed /\ post.finishedRuns = <<>>

\* case run, ok := <-postProcessor.finishedRuns with !ok; select may choose
\* it while listenerChan is ready as well
PostProcessorClosed ==
    /\ post.pc = "select"
    /\ ClosedSeen
    /\ post' = IF post.listeners = <<>>
               THEN [post EXCEPT !.pc = "returned"]
               ELSE [post EXCEPT !.pc = "closing", !.idx = 1]
    /\ UNCHANGED <<cfg, grade, runs, ready, run, mapping, inflight, th>>

\* one iteration of the loop that closes the listeners, then return
PostProcessorCloseListener ==
    /\ post.pc = "closing"
    /\ LET l == post.listeners[post.idx] IN
       post' = IF post.idx < Len(post.listeners)
               THEN [post EXCEPT !.closedListeners = Append(@, l),
                                 !.idx = @ + 1]
               ELSE [post EXCEPT !.closedListeners = Append(@, l),
                                 !.pc = "returned", !.idx = 0]
    /\ UNCHANGED <<cfg, grade, runs, ready, run, mapping, inflight, th>>

PostProcessorShutdown ==
    \/ PostProcessorClosed
    \/ PostProcessorCloseListener

----------------------------------------------------------------------------
(* The runner: Grade *)

NoGrade == [pc |-> "idle"]

verdictList ==
    <<"JE", "CE", "MLE", "RFE", "RTE", "TLE", "OLE", "WA", "PA", "AC", "OK">>

Verdicts == {verdictList[i] : i \in 1..Len(verdictList)}

\* the first index from 0 for which the predicate holds, -1 if there is none
sliceIndex(limit, v) ==
    IF \E i \in 0..(limit - 1) : verdictList[i + 1] = v
    THEN CHOOSE i \in 0..(limit - 1) :
            /\ verdictList[i + 1] = v
            /\ \A k \in 0..(i - 1) : verdictList[k + 1] # v
    ELSE -1

\* a variant that returns the larger number
larger(a, b) == IF a < b THEN b ELSE a

min(a, b) == IF a < b THEN a ELSE b

\* what stands for the result of a call that does not return: the index
\* expression verdictList[-1] panics at run time
IndexOutOfRange == "panic: index out of range"

worseVerdict(a, b) ==
    LET idx == min(sliceIndex(Len(verdictList), a),
                   sliceIndex(Len(verdictList), b)) IN
    IF idx < 0 THEN IndexOutOfRange ELSE verdictList[idx + 1]

\* what sandbox.Run reports for a case
RuntimeVerdicts == {"OK", "RTE", "TLE", "MLE", "OLE", "RFE", "JE"}

\* what sandbox.Compile returns: an error with no metadata, or metadata
CompileOutcomes ==
    {[err |-> TRUE, Verdict |-> "nil"]}
        \cup {[err |-> FALSE, Verdict |-> v] : v \in {"OK", "CE", "TLE"}}

\* a variant that only looks at the error
CompileFailedOnError(o) == o.err

\* err != nil || compileMeta.Verdict != "OK"
CompileFailed(o) == o.err \/ o.Verdict # "OK"

\* the binaries to compile, in order
Plans == {<<"Main">>, <<"Main", "validator">>}

\* the groups of the problem, as the number of cases of each
ProblemShapes == {<<2>>, <<1, 1>>, <<2, 1>>}

MaxScores == {1, 3}

RECURSIVE SumSeq(_)
SumSeq(q) == IF q = <<>> THEN 0 ELSE Head(q) + SumSeq(Tail(q))

\* the case weights of a problem of the given shape: they sum to 1
CasesOf(shape) ==
    {c \in [1..Len(shape) ->
              UNION {[1..shape[i] -> 0..WeightUnit] : i \in 1..Len(shape)}] :
        /\ \A i \in 1..Len(shape) : Len(c[i]) = shape[i]
        /\ SumSeq([i \in 1..Len(shape) |-> SumSeq(c[i])]) = WeightUnit}

RECURSIVE Pow2(_)
Pow2(n) == IF n = 0 THEN 1 ELSE 2 * Pow2(n - 1)

\* a number x is held as the integer x * Unit
Unit == Pow2(FractionBits)

\* n / d rounded to the nearest integer, a tie to the even one
RoundHalfEven(n, d) ==
    LET q == n \div d
        r == n % d IN
    IF 2 * r < d THEN q
    ELSE IF 2 * r > d THEN q + 1
    ELSE IF q % 2 = 0 THEN q ELSE q + 1

\* the floating-point number nearest to n / d (n and d integers, n / d in
\* units of 1 / Unit): n / d is rounded to SignificandBits significant bits
Round(n, d) ==
    LET e == IF n < d THEN 0
             ELSE CHOOSE k \in 0..(2 * FractionBits + 4) :
                     d * Pow2(k) <= n /\ n < d * Pow2(k + 1)
        ulp == IF e >= SignificandBits THEN Pow2(e - SignificandBits + 1) ELSE 1 IN
    RoundHalfEven(n, d * ulp) * ulp

\* the float64 of the constant k / u
Float(k, u) == Round(k * Unit, u)

\* a + b and a * b in floating point
Add(a, b) == Round(a + b, 1)

Mul(a, b) == Round(a * b, Unit)

\* the score 1.0
One == Float(1, 1)

\* wallTimeLimit := (float64)(OverallWallTimeLimit / 1000.0), in seconds:
\* the limit is an int64 of milliseconds, and the division that of int64
WallTimeLimitOf(ms) == Float(ms \div 1000, 1)

\* Grade's locals at its first statement, for a problem with the given
\* cases and overall wall-time limit (ms) whose cases take, in the sandbox,
\* one of the given wall times (s).  compiled, executed and validated are
\* history: the calls of sandbox.Compile with what they returned, and how
\* many cases were run in the sandbox and scored; so are the fields run,
\* sandboxed and wall of a case: its verdict after the execution phase,
\* whether sandbox.Run was called for it, and the wall time it took.
NewGrade(cases, binaries, maxScore, limit, wallTimes) ==
    [pc |-> "compile", Cases |-> cases, binaries |-> binaries,
     OverallWallTimeLimit |-> limit, wallTimes |-> wallTimes,
     b |-> 1, i |-> 1, j |-> 1, correct |-> TRUE, score |-> 0, err |-> FALSE,
     runResult |-> [Verdict |-> "JE", CompileError |-> "",
                    CompileMeta |-> {}, Score |-> 0, ContestScore |-> 0,
                    MaxScore |-> Float(maxScore, 1), WallTime |-> 0],
     groupResults |-> [i \in 1..Len(cases) |-> [Score |-> 0, ContestScore |-> 0]],
     caseResults |-> [i \in 1..Len(cases) |->
                        [j \in 1..Len(cases[i]) |->
                            [Verdict |-> "", Score |-> 0, run |-> "",
                             sandboxed |-> FALSE, wall |-> 0]]],
     compiled |-> <<>>, executed |-> 0, validated |-> 0]

\* !sandbox.Supported(), or the run's directories cannot be set up
GradeSetupError ==
    /\ grade.pc = "compile"
    /\ grade.b = 1
    /\ grade' = [grade EXCEPT !.pc = "done", !.err = TRUE]
    /\ UNCHANGED <<cfg, runs, ready, run, mapping, inflight, th, post>>

\* one iteration of for _, b := range binaries, or the statements after it
GradeCompile ==
    /\ grade.pc = "compile"
    /\ IF grade.b > Len(grade.binaries)
       THEN grade' = [grade EXCEPT !.pc = "run", !.runResult.Verdict = "OK"]
       ELSE \E o \in CompileOutcomes :
              LET name == grade.binaries[grade.b]
                  call == [name |-> name, err |-> o.err, Verdict |-> o.Verdict]
                  meta == IF o.Verdict = "nil"
                          THEN grade.runResult.CompileMeta
                          ELSE grade.runResult.CompileMeta \cup {name} IN
              grade' = IF CompileFailed(o)
                       THEN [grade EXCEPT !.pc = "done", !.err = o.err,
                                          !.compiled = Append(@, call),
                                          !.runResult.CompileMeta = meta,
                                          !.runResult.Verdict = "CE",
                                          !.runResult.CompileError = name]
                       ELSE [grade EXCEPT !.b = @ + 1,
                                          !.compiled = Append(@, call),
                                          !.runResult.CompileMeta = meta]
    /\ UNCHANGED <<cfg, runs, ready, run, mapping, inflight, th, post>>

\* the last case of the last group
LastCase(g) == g.i = Len(g.Cases) /\ g.j = Len(g.Cases[g.i])

\* the loop variables of for i, group ... for j, caseData ... after case
\* (i, j)
NextCase(g) ==
    IF g.j < Len(g.Cases[g.i])
    THEN [g EXCEPT !.j = @ + 1]
    ELSE [g EXCEPT !.i = @ + 1, !.j = 1]

\* a variant of the guard that stops at the limit
ReachedLimit(wallTime, limit) == wallTime >= limit

\* if runResult.WallTime > wallTimeLimit
OverLimit(wallTime, limit) == wallTime > limit

\* a variant of the guard's metadata with the verdict of a case that ran
GuardMetaOK == [Verdict |-> "OK", WallTime |-> 0]

\* runMeta = &RunMetadata{Verdict: "TLE"}
GuardMeta == [Verdict |-> "TLE", WallTime |-> 0]

\* the execution phase, one case: past the wall-time limit the case gets a
\* TLE and is not run; otherwise the sandbox runs it.  The verdict of the
\* case is merged into the verdict of the run, and its wall time added.
GradeRun ==
    /\ grade.pc = "run"
    /\ \E o \in RuntimeVerdicts \X grade.wallTimes :
          LET guarded == OverLimit(grade.runResult.WallTime,
                                   WallTimeLimitOf(grade.OverallWallTimeLimit))
              v == IF guarded THEN GuardMeta.Verdict ELSE o[1]
              wall == IF guarded THEN GuardMeta.WallTime ELSE Float(o[2], 1)
              ran == [grade EXCEPT
                        !.runResult.Verdict = worseVerdict(@, v),
                        !.runResult.WallTime = Add(@, wall),
                        !.caseResults[grade.i][grade.j].Verdict = v,
                        !.caseResults[grade.i][grade.j].run = v,
                        !.caseResults[grade.i][grade.j].sandboxed = ~guarded,
                        !.caseResults[grade.i][grade.j].wall = wall,
                        !.executed = IF guarded THEN @ ELSE @ + 1] IN
          grade' = IF LastCase(grade)
                   THEN [ran EXCEPT !.pc = "validate", !.i = 1, !.j = 1,
                                    !.correct = TRUE, !.score = 0]
                   ELSE NextCase(ran)
    /\ UNCHANGED <<cfg, runs, ready, run, mapping, inflight, th, post>>

\* what the validation of a case with run-time verdict OK ends with: its
\* output or the expected output cannot be opened, or CalculateScore
\* returns a score from 0 to 1
ValidateOutcomes ==
    {[opened |-> FALSE, runScore |-> 0]}
        \cup {[opened |-> TRUE, runScore |-> Float(x, ScoreUnit)] :
                 x \in 0..ScoreUnit}

\* caseData.Weight of case j of group i
Weight(i, j) == Float(grade.Cases[i][j], WeightUnit)

\* the validation phase, one case
GradeValidate ==
    /\ grade.pc = "validate"
    /\ LET i == grade.i
           j == grade.j
           next(g) == IF g.j < Len(g.Cases[g.i])
                      THEN [g EXCEPT !.j = @ + 1]
                      ELSE [g EXCEPT !.pc = "group"] IN
       IF grade.caseResults[i][j].Verdict = "OK"
       THEN \E o \in ValidateOutcomes :
              IF ~o.opened
              THEN grade' = next(grade)
              ELSE grade' = next(
                     [grade EXCEPT
                        !.validated = @ + 1,
                        !.caseResults[i][j].Score = o.runScore,
                        !.score = Add(@, Mul(o.runScore, Weight(i, j))),
                        !.caseResults[i][j].Verdict =
                            IF o.runScore = One THEN "AC"
                            ELSE IF o.runScore = 0 THEN "WA" ELSE "PA",
                        !.runResult.Verdict =
                            IF o.runScore = One THEN @
                            ELSE worseVerdict(@, "PA"),
                        !.correct =
                            IF o.runScore = 0 THEN FALSE ELSE @])
       ELSE grade' = next(grade)
    /\ UNCHANGED <<cfg, runs, ready, run, mapping, inflight, th, post>>

\* runResult.MaxScore * score
GroupContestScore(maxScore, score) == Mul(maxScore, score)

\* the end of the body of the validation loop: if correct { ... }
GradeGroup ==
    /\ grade.pc = "group"
    /\ LET i == grade.i
           scored ==
             IF grade.correct
             THEN [grade EXCEPT
                     !.groupResults[i].Score = grade.score,
                     !.runResult.Score = Add(@, grade.score),
                     !.groupResults[i].ContestScore =
                         GroupContestScore(grade.runResult.MaxScore, grade.score),
                     !.runResult.ContestScore =
                         Add(@, GroupContestScore(grade.runResult.MaxScore,
                                                  grade.score))]
             ELSE grade IN
       grade' = IF i < Len(grade.Cases)
                THEN [scored EXCEPT !.pc = "validate", !.i = @ + 1, !.j = 1,
                                    !.correct = TRUE, !.score = 0]
                ELSE [scored EXCEPT !.pc = "finish"]
    /\ UNCHANGED <<cfg, runs, ready, run, mapping, inflight, th, post>>

\* a variant that leaves the verdict PA of a run with score 0
KeepPA(verdict, score) == IF verdict = "OK" THEN "AC" ELSE verdict

\* the verdict after the last statements of Grade
FinalVerdict(verdict, score) ==
    IF verdict = "PA" /\ score = 0 THEN "WA"
    ELSE IF verdict = "OK" THEN "AC" ELSE verdict

\* the rewrite of the verdict, then uploadFiles, which can fail
GradeFinish ==
    /\ grade.pc = "finish"
    /\ \E uploaded \in BOOLEAN :
          LET r == grade.runResult IN
          grade' = [grade EXCEPT
                      !.pc = "done", !.err = ~uploaded,
                      !.runResult.Verdict = FinalVerdict(r.Verdict, r.Score),
                      !.runResult.Score =
                          IF r.Verdict = "OK" THEN One ELSE @,
                      !.runResult.ContestScore =
                          IF r.Verdict = "OK" THEN r.MaxScore ELSE @]
    /\ UNCHANGED <<cfg, runs, ready, run, mapping, inflight, th, post>>

----------------------------------------------------------------------------
(* The system *)

Step(t) ==
    \/ EnqueueBlockingRun(t)
    \/ EnqueueBlockingReady(t)
    \/ GetRunReady(t)
    \/ GetRunScan(t)
    \/ MonitorAdd(t)
    \/ MonitorGet(t)
    \/ RunnerGone(t)
    \/ HandlerClose(t)
    \/ HandlerRequeue(t)
    \/ SupervisorConnected(t)
    \/ SupervisorReady(t)
    \/ SupervisorTimer(t)
    \/ SupervisorSend(t)
    \/ SupervisorClose(t)
    \/ RequeueRemove(t)
    \/ RequeueLoadTries(t)
    \/ RequeueStoreTries(t)
    \/ RequeueEnqueue(t)
    \/ EnqueueReady(t)
    \/ CloseSwap(t)
    \/ CloseRelease(t)
    \/ ClosePersist(t)
    \/ ClosePostProcess(t)

EmptyFn == [x \in {} |-> 0]

InitGrader(depth, retries, runIds, runners, priorities) ==
    /\ cfg = [channelLength |-> depth, MaxGradeRetries |-> retries]
    /\ runs = [p \in Priorities |-> <<>>]
    /\ ready = 0
    /\ run \in [runIds -> {NewEmptyRunContext(p, retries) : p \in priorities}]
    /\ mapping = EmptyFn
    /\ inflight = EmptyFn
    /\ th = [t \in {AdderOf(r) : r \in runIds} \cup {RunnerOf(d) : d \in runners}
                |-> IF t[1] = "add" THEN Locals("new", t[2])
                    ELSE Locals("idle", NoRun)]

\* ... with a post-processor nobody listens to; no runner is grading
InitWith(depth, retries, runIds, runners, priorities) ==
    /\ InitGrader(depth, retries, runIds, runners, priorities)
    /\ post = NewRunPostProcessor({})
    /\ grade = NoGrade

(* The whole system: one run, one runner, every interleaving *)

Init == InitWith(ConcDepth, ConcRetries, {1}, {1}, {QueuePriorityNormal})

Next == \E t \in DOMAIN th : Step(t) \/ GetRunCancel(t) \/ GetRunAgain(t)

Spec == Init /\ [][Next]_vars

\* a thread between two operations
Resting(t) ==
    th[t].pc \in {"new", "added", "idle", "dispatched", "graded",
                  "waitConnected", "waitReady", "panic", "cancelled"}

(* Operations do not overlap: a thread inside an operation finishes it     *)
(* before any other thread moves                                           *)

SeqInit == InitWith(SeqDepth, SeqRetries, {1}, {1, 2}, InjectPriorities)

SeqNext ==
    \E t \in DOMAIN th :
        /\ \A u \in DOMAIN th \ {t} : Resting(u)
        /\ Step(t)

SeqSpec == SeqInit /\ [][SeqNext]_vars

(* The runners never post results: every attempt ends by its supervisor's  *)
(* connect deadline                                                        *)

TimeoutStep(t) ==
    \/ EnqueueBlockingRun(t)
    \/ EnqueueBlockingReady(t)
    \/ GetRunReady(t)
    \/ GetRunScan(t)
    \/ MonitorAdd(t)
    \/ RunnerGone(t)
    \/ SupervisorTimer(t)
    \/ SupervisorSend(t)
    \/ SupervisorClose(t)
    \/ RequeueRemove(t)
    \/ RequeueLoadTries(t)
    \/ RequeueStoreTries(t)
    \/ RequeueEnqueue(t)
    \/ EnqueueReady(t)
    \/ CloseSwap(t)
    \/ CloseRelease(t)
    \/ ClosePersist(t)

\* a thread inside enqueueBlocking, enqueue or GetRun, about to operate on
\* one of the queue's channels
InQueue(t) == th[t].pc \in {"token", "scan", "rq3", "rq4"}

(* ... with the queue's methods interleaved in every way (the statements   *)
(* outside them, which do not touch the queue, run without interruption)   *)

QueueInit ==
    InitWith(QueueDepth, QueueRetries, {1, 2}, {1, 2}, InjectPriorities)

QueueNext ==
    \E t \in DOMAIN th :
        /\ \A u \in DOMAIN th \ {t} : Resting(u) \/ InQueue(u)
        /\ TimeoutStep(t)

QueueSpec == QueueInit /\ [][QueueNext]_vars

(* ... and with dequeuers whose close-notifier fires                       *)

CancelInit ==
    InitWith(CancelDepth, CancelRetries, {1, 2}, {1, 2}, InjectPriorities)

CancelNext ==
    \E t \in DOMAIN th :
        /\ \A u \in DOMAIN th \ {t} : Resting(u) \/ InQueue(u)
        /\ TimeoutStep(t) \/ GetRunCancel(t) \/ GetRunAgain(t)

CancelSpec == CancelInit /\ [][CancelNext]_vars

(* ... with as many runs as the FIFOs of the queue can hold               *)

TokenInit ==
    InitWith(TokenDepth, TokenRetries, {1, 2, 3}, {1}, InjectPriorities)

TokenSpec == TokenInit /\ [][CancelNext]_vars

(* ... with operations that do not overlap, a single dequeuer, and         *)
(* scheduling that lets timers fire and goroutines run                     *)

TimeoutRuns == {1, 2, 3}

TimeoutInit ==
    InitWith(TimeoutDepth, TimeoutRetries, TimeoutRuns, {1}, InjectPriorities)

TimeoutNext ==
    \E t \in DOMAIN th :
        /\ \A u \in DOMAIN th \ {t} : Resting(u)
        /\ TimeoutStep(t)

TimeoutSpec == TimeoutInit /\ [][TimeoutNext]_vars /\ WF_vars(TimeoutNext)

(* ... with runners that post their results, once or several times       *)

RemoveInit ==
    InitWith(RemoveDepth, RemoveRetries, {1}, {1, 2}, {QueuePriorityNormal})

RemoveNext ==
    \E t \in DOMAIN th :
        /\ \A u \in DOMAIN th \ {t} : Resting(u)
        /\ Step(t) \/ MonitorGetAgain(t)

RemoveSpec == RemoveInit /\ [][RemoveNext]_vars /\ WF_vars(RemoveNext)

(* ... and FIFOs that hold more than one run                               *)

FifoInit ==
    InitWith(FifoDepth, FifoRetries, TimeoutRuns, {1}, InjectPriorities)

FifoSpec == FifoInit /\ [][TimeoutNext]_vars

(* The runners post their results and the runs are closed, while the      *)
(* callers of AddListener and the post-processor's goroutine run; the      *)
(* goroutine is scheduled, and the listeners take what is sent to them     *)

PostRuns == {1, 2}
PostListeners == {1, 2}

PostInit ==
    /\ InitGrader(PostDepth, PostRetries, PostRuns, {1}, {QueuePriorityNormal})
    /\ post = NewRunPostProcessor(PostListeners)
    /\ grade = NoGrade

PostStep(t) ==
    \/ EnqueueBlockingRun(t)
    \/ EnqueueBlockingReady(t)
    \/ GetRunReady(t)
    \/ GetRunScan(t)
    \/ MonitorAdd(t)
    \/ MonitorGet(t)
    \/ HandlerClose(t)
    \/ SupervisorConnected(t)
    \/ SupervisorReady(t)
    \/ SupervisorClose(t)
    \/ CloseSwap(t)
    \/ CloseRelease(t)
    \/ ClosePersist(t)
    \/ ClosePostProcess(t)

PostNext ==
    \/ \E t \in DOMAIN th :
          /\ \A u \in DOMAIN th \ {t} : Resting(u)
          /\ PostStep(t)
    \/ \E l \in DOMAIN post.reg : AddListenerSend(l) \/ AddListenerReturn(l)
    \/ PostProcessorStep

PostSpec == PostInit /\ [][PostNext]_vars /\ WF_vars(PostProcessorStep)

(* The same, and RunPostProcessor.Close is called once, at any moment; a   *)
(* PostProcess that comes after it panics                                  *)

ShutdownNext ==
    \/ \E t \in DOMAIN th :
          /\ \A u \in DOMAIN th \ {t} : Resting(u)
          /\ PostStep(t) \/ ClosePostProcessPanic(t)
    \/ \E l \in DOMAIN post.reg : AddListenerSend(l) \/ AddListenerReturn(l)
    \/ PostProcessorStep
    \/ RunPostProcessorClose
    \/ PostProcessorShutdown

ShutdownSpec ==
    /\ PostInit
    /\ [][ShutdownNext]_vars
    /\ WF_vars(PostProcessorStep \/ PostProcessorShutdown)

(* One call of Grade on the runner, for every problem, plan and maximum   *)
(* score of the bounded sets, whatever the sandbox and the validator       *)
(* answer; the overall wall-time limit is 0, and a case takes no wall time *)
(* or one second                                                           *)

GradeInit ==
    /\ InitGrader(ConcDepth, ConcRetries, {}, {}, {QueuePriorityNormal})
    /\ post = NewRunPostProcessor({})
    /\ grade \in {NewGrade(c, b, m, 0, {0, 1}) :
                    c \in UNION {CasesOf(shape) : shape \in ProblemShapes},
                    b \in Plans, m \in MaxScores}

GradeNext ==
    \/ GradeSetupError
    \/ GradeCompile
    \/ GradeRun
    \/ GradeValidate
    \/ GradeGroup
    \/ GradeFinish

GradeSpec == GradeInit /\ [][GradeNext]_vars

(* ... for problems of three cases of positive weight that each take the  *)
(* same wall time, under every overall wall-time limit in steps of half a *)
(* second                                                                  *)

WallShapes == {<<3>>, <<1, 2>>}

\* the problems of the given shape whose cases all have a positive weight
WallCasesOf(shape) ==
    {c \in CasesOf(shape) :
        \A i \in 1..Len(shape) : \A j \in 1..shape[i] : c[i][j] > 0}

WallInit ==
    /\ InitGrader(ConcDepth, ConcRetries, {}, {}, {QueuePriorityNormal})
    /\ post = NewRunPostProcessor({})
    /\ grade \in {NewGrade(c, <<"Main">>, 1, 500 * k, {d}) :
                    c \in UNION {WallCasesOf(shape) : shape \in WallShapes},
                    k \in 0..(2 * WallLimitSeconds), d \in 1..WallSeconds}

WallSpec == WallInit /\ [][GradeNext]_vars

(* parseOutputOnlyFile on its own.  Strings are sequences of characters.  *)

Out == <<".", "o", "u", "t">>

MainOut == <<"M", "a", "i", "n">> \o Out

\* strings.HasSuffix
HasSuffix(s, suffix) ==
    /\ Len(s) >= Len(suffix)
    /\ SubSeq(s, Len(s) - Len(suffix) + 1, Len(s)) = suffix

\* strings.LastIndex for a separator of one character: the index from 0 of
\* its last occurrence, -1 if there is none
LastIndex(s, sep) ==
    IF \E i \in 1..Len(s) : s[i] = sep
    THEN (CHOOSE i \in 1..Len(s) :
             s[i] = sep /\ \A k \in (i + 1)..Len(s) : s[k] # sep) - 1
    ELSE -1

\* a variant that keeps the directories
FullName(name) == name

\* fileName with the intermediate directories skipped
BaseName(name) ==
    LET idx == LastIndex(name, "/") IN
    IF idx # -1 THEN SubSeq(name, idx + 2, Len(name)) ELSE name

\* expectedFileNames: <case>.out for every case of the settings
expectedFileNames(settings) == {c \o Out : c \in settings.Cases}

\* uint64(n) of an int64
Uint64(n) == n % Pow2(SizeBits)

\* result[k] = v
Put(result, k, v) ==
    [n \in DOMAIN result \cup {k} |-> IF n = k THEN v ELSE result[n]]

\* one iteration of the loop over z.File.  An entry holds its name, its
\* bytes (UncompressedSize64 is their number), and whether its stored data
\* is damaged, which makes Open or io.Copy fail.
ParseFile(result, f, settings) ==
    IF ~HasSuffix(f.Name, Out) THEN result
    ELSE IF BaseName(f.Name) \notin expectedFileNames(settings) THEN result
    ELSE IF Len(f.data) > Uint64(settings.OutputLimit)
         THEN Put(result, BaseName(f.Name), <<>>)
    ELSE IF f.damaged THEN result
    ELSE Put(result, BaseName(f.Name), f.data)

CaseNames == {<<"a">>, <<"b">>}

EntryNames ==
    {<<"a">> \o Out, <<"d", "/", "a">> \o Out,
     <<"d", "/", "d", "/", "a">> \o Out, <<"b">> \o Out,
     <<"d", "/", "b">> \o Out, <<"a", ".", "t", "x", "t">>}

Contents == {[k \in 1..n |-> "x"] : n \in 0..ContentLen}

ZipEntry(name, x) == [Name |-> name, data |-> x, damaged |-> FALSE]

ZipEntries ==
    {ZipEntry(name, x) : name \in EntryNames, x \in Contents}
        \cup [Name : EntryNames, data : {<<"x">>}, damaged : {TRUE}]

\* the data URL of the zip archive with the given entries: what
\* dataurl.DecodeString and zip.NewReader make of it
EncodeZip(files) ==
    [dataurl |-> TRUE, zip |-> TRUE, File |-> files, text |-> <<>>]

\* the argument data: the data URL of a zip archive, the data URL of
\* something else, or a text that is no data URL
ParseData ==
    {EncodeZip(files) : files \in UNION {[1..n -> ZipEntries] : n \in 0..ZipLen}}
        \cup {[dataurl |-> TRUE, zip |-> FALSE, File |-> <<>>, text |-> <<>>],
              [dataurl |-> FALSE, zip |-> FALSE, File |-> <<>>,
               text |-> <<"x">>]}

\* the argument settings: the names of its cases and its output limit
ParseSettings == [Cases : SUBSET CaseNames, OutputLimit : 0..OutputLimitMax]

ParseInit ==
    /\ InitGrader(ConcDepth, ConcRetries, {}, {}, {QueuePriorityNormal})
    /\ post = NewRunPostProcessor({})
    /\ grade \in [pc : {"decode"}, data : ParseData, settings : ParseSettings,
                   k : {1}, result : {<<>>}, err : {FALSE}]

\* dataurl.DecodeString and zip.NewReader
ParseDecode ==
    /\ grade.pc = "decode"
    /\ grade' = IF ~grade.data.dataurl
                THEN [grade EXCEPT !.pc = "parsed",
                                   !.result = Put(<<>>, MainOut, grade.data.text)]
                ELSE IF ~grade.data.zip
                THEN [grade EXCEPT !.pc = "parsed", !.err = TRUE]
                ELSE [grade EXCEPT !.pc = "files"]
    /\ UNCHANGED <<cfg, runs, ready, run, mapping, inflight, th, post>>

ParseEntry ==
    /\ grade.pc = "files"
    /\ grade.k <= Len(grade.data.File)
    /\ grade' = [grade EXCEPT
                    !.result = ParseFile(@, grade.data.File[grade.k],
                                         grade.settings),
                    !.k = @ + 1]
    /\ UNCHANGED <<cfg, runs, ready, run, mapping, inflight, th, post>>

ParseReturn ==
    /\ grade.pc = "files"
    /\ grade.k > Len(grade.data.File)
    /\ grade' = [grade EXCEPT !.pc = "parsed"]
    /\ UNCHANGED <<cfg, runs, ready, run, mapping, inflight, th, post>>

ParseSpec == ParseInit /\ [][ParseDecode \/ ParseEntry \/ ParseReturn]_vars

(* worseVerdict on its own: three verdicts, merged in both groupings and   *)
(* both orders                                                             *)

WorseInit ==
    /\ InitGrader(ConcDepth, ConcRetries, {}, {}, {QueuePriorityNormal})
    /\ post = NewRunPostProcessor({})
    /\ grade \in [pc : {"args"}, a : Verdicts, b : Verdicts, c : Verdicts]

WorseApply ==
    /\ grade.pc = "args"
    /\ LET a == grade.a
           b == grade.b
           c == grade.c IN
       grade' = [pc |-> "merged", a |-> a, b |-> b, c |-> c,
                 aa |-> worseVerdict(a, a),
                 ab |-> worseVerdict(a, b),
                 ba |-> worseVerdict(b, a),
                 ab_c |-> worseVerdict(worseVerdict(a, b), c),
                 a_bc |-> worseVerdict(a, worseVerdict(b, c))]
    /\ UNCHANGED <<cfg, runs, ready, run, mapping, inflight, th, post>>

WorseSpec == WorseInit /\ [][WorseApply]_vars

(* The same for any three strings: the eleven verdicts, the empty string   *)
(* and a string that is no verdict                                         *)

VerdictStrings == Verdicts \cup {"", "XX"}

StringsInit ==
    /\ InitGrader(ConcDepth, ConcRetries, {}, {}, {QueuePriorityNormal})
    /\ post = NewRunPostProcessor({})
    /\ grade \in [pc : {"args"}, a : VerdictStrings, b : VerdictStrings,
                   c : VerdictStrings]

StringsSpec == StringsInit /\ [][WorseApply]_vars

----------------------------------------------------------------------------
(* The runner: processRun and the upload of the result *)

\* the bytes json.Encoder.Encode writes for a RunResult of verdict v, a
\* sequence of characters: the object and a newline
EncodeJSON(v) ==
    <<"{", "\"", "v", "\"", ":", "\"">> \o v \o <<"\"", "}", "\n">>

\* the first n bytes of buffer b, and what is left after them
Taken(b, n) == SubSeq(b, 1, min(n, Len(b)))
Left(b, n) == SubSeq(b, min(n, Len(b)) + 1, Len(b))

\* processRun after go func() { client.Post(...) }: its position pc, the
\* upload goroutine up, the transport's reader of the request body rd and the
\* length p of the buffer of the Read it is in, the blockingReader (hasRead;
\* supplied says that reader is not nil, reader is what is left in it), the
\* mutex, what Grade's result encodes to, and whether inputManager.Add fails.
\* sent, readErr, postErr and released are history: the bytes the Reads
\* returned, whether a Read returned an error, whether Post did, and how
\* many times ioLock was unlocked.
NewProcessRun(body, inputErr) ==
    [pc |-> "lock", up |-> "post", rd |-> "idle", p |-> 0,
     hasRead |-> FALSE, supplied |-> FALSE, reader |-> <<>>,
     readerChanClosed |-> FALSE, ioLock |-> FALSE,
     body |-> body, inputErr |-> inputErr,
     sent |-> <<>>, readErr |-> FALSE, postErr |-> FALSE, released |-> 0]

\* ioLock.Lock()
ProcessRunLock ==
    /\ grade.pc = "lock"
    /\ ~grade.ioLock
    /\ grade' = [grade EXCEPT !.ioLock = TRUE, !.pc = "input"]
    /\ UNCHANGED <<cfg, runs, ready, run, mapping, inflight, th, post>>

\* inputManager.Add: on an error processRun returns, the deferred Unlock runs
ProcessRunInput ==
    /\ grade.pc = "input"
    /\ grade' = IF grade.inputErr
                THEN [grade EXCEPT !.pc = "returned", !.ioLock = FALSE,
                                   !.released = @ + 1]
                ELSE [grade EXCEPT !.pc = "grade"]
    /\ UNCHANGED <<cfg, runs, ready, run, mapping, inflight, th, post>>

\* runner.Grade and encoder.Encode(result)
ProcessRunGrade ==
    /\ grade.pc = "grade"
    /\ grade' = [grade EXCEPT !.pc = "send"]
    /\ UNCHANGED <<cfg, runs, ready, run, mapping, inflight, th, post>>

\* a variant of BraceRead that accepts any first byte
AnyByteRead(b) == b # <<>>

\* the Read of one byte that must give a brace
BraceRead(b) == b # <<>> /\ Head(b) = "{"

\* a variant of AfterBrace that leaves the brace in the reader
WithBrace(b) == b

\* what is left in the reader after the Read of one byte
AfterBrace(b) == Left(b, 1)

\* requestBody.readerChan <- &resultBytes meets r.reader = <-r.readerChan of
\* a Read that waits (the channel has no buffer); the Read closes the
\* channel, reads one byte and fails unless it is a brace, else returns
\* r.reader.Read(p)
ProcessRunSend ==
    /\ grade.pc = "send"
    /\ grade.rd = "blocked"
    /\ LET b == AfterBrace(grade.body) IN
       grade' = IF BraceRead(grade.body)
                THEN [grade EXCEPT !.pc = "wait", !.supplied = TRUE,
                                   !.readerChanClosed = TRUE,
                                   !.rd = IF b = <<>> THEN "eof" ELSE "idle",
                                   !.sent = @ \o Taken(b, grade.p),
                                   !.reader = Left(b, grade.p), !.p = 0]
                ELSE [grade EXCEPT !.pc = "wait", !.supplied = TRUE,
                                   !.readerChanClosed = TRUE,
                                   !.rd = "failed", !.readErr = TRUE,
                                   !.reader = b, !.p = 0]
    /\ UNCHANGED <<cfg, runs, ready, run, mapping, inflight, th, post>>

\* return <-finished meets finished <- err of the upload goroutine; the
\* deferred Unlock runs
ProcessRunFinished ==
    /\ grade.pc = "wait"
    /\ grade.up = "finish"
    /\ grade' = [grade EXCEPT !.pc = "returned", !.up = "done",
                              !.ioLock = FALSE, !.released = @ + 1]
    /\ UNCHANGED <<cfg, runs, ready, run, mapping, inflight, th, post>>

\* blockingReader.Read(p) with len(p) = n, called by the transport while
\* client.Post is under way: the brace at once on the first call, then the
\* wait for the reader, then the reader's bytes
BlockingRead(n) ==
    /\ grade.up = "post"
    /\ grade.rd = "idle"
    /\ grade' = IF ~grade.supplied
                THEN IF ~grade.hasRead
                     THEN [grade EXCEPT !.hasRead = TRUE,
                                        !.sent = Append(@, "{")]
                     ELSE [grade EXCEPT !.rd = "blocked", !.p = n]
                ELSE IF grade.reader = <<>>
                     THEN [grade EXCEPT !.rd = "eof"]
                     ELSE [grade EXCEPT !.sent = @ \o Taken(grade.reader, n),
                                        !.reader = Left(grade.reader, n)]
    /\ UNCHANGED <<cfg, runs, ready, run, mapping, inflight, th, post>>

\* client.Post returns an error: before any Read, between two Reads, while a
\* Read waits for the reader, or after a Read failed
PostFails ==
    /\ grade.up = "post"
    /\ grade.rd # "eof"
    /\ grade' = [grade EXCEPT !.up = "finish", !.postErr = TRUE]
    /\ UNCHANGED <<cfg, runs, ready, run, mapping, inflight, th, post>>

\* client.Post returns after the whole body was read, with a response or
\* with an error
PostReturns(err) ==
    /\ grade.up = "post"
    /\ grade.rd = "eof"
    /\ grade' = [grade EXCEPT !.up = "finish", !.postErr = err]
    /\ UNCHANGED <<cfg, runs, ready, run, mapping, inflight, th, post>>

UploadNext ==
    \/ ProcessRunLock
    \/ ProcessRunInput
    \/ ProcessRunGrade
    \/ ProcessRunSend
    \/ ProcessRunFinished
    \/ \E n \in 1..BufLen : BlockingRead(n)
    \/ PostFails
    \/ \E err \in BOOLEAN : PostReturns(err)

(* One processRun on the runner, after the upload goroutine was started:   *)
(* the result is that of Grade, the input is fetched or not, the transport *)
(* reads the body with buffers of some lengths, and Post fails at any      *)
(* moment or returns once the body was read; every step that can be taken  *)
(* is taken in the end                                                     *)

UploadVerdicts == {<<"A", "C">>, <<"J", "E">>, <<"W", "A">>}

UploadInit ==
    /\ InitGrader(ConcDepth, ConcRetries, {}, {}, {QueuePriorityNormal})
    /\ post = NewRunPostProcessor({})
    /\ grade \in {NewProcessRun(EncodeJSON(v), e) :
                    v \in UploadVerdicts, e \in BOOLEAN}

UploadSpec == UploadInit /\ [][UploadNext]_vars /\ WF_vars(UploadNext)

(* The blockingReader of one upload, supplied with an encoded result or    *)
(* with any reader of at most ReaderLen bytes                              *)

Bytes == {"{", "n", "}"}

ReaderInit ==
    /\ InitGrader(ConcDepth, ConcRetries, {}, {}, {QueuePriorityNormal})
    /\ post = NewRunPostProcessor({})
    /\ grade \in {NewProcessRun(b, FALSE) :
                    b \in {EncodeJSON(v) : v \in UploadVerdicts}
                          \cup UNION {[1..k -> Bytes] : k \in 0..ReaderLen}}

ReaderSpec == ReaderInit /\ [][UploadNext]_vars

----------------------------------------------------------------------------
(* The runner: one sandboxed case, its tasks and its aggregation *)

binaryProblemsetter == 0
binaryContestant == 1
binaryValidator == 2

\* the binaries before the validator's is appended: Main alone, or the
\* problem-setter's and one per other interface
CasePlans ==
    {<<binaryContestant>>,
     <<binaryProblemsetter, binaryContestant>>,
     <<binaryProblemsetter, binaryContestant, binaryContestant>>}

\* what sandbox.Run reports for one binary: times in seconds, memory in
\* bytes
SandboxMetas ==
    {[Verdict |-> "OK", Time |-> Float(1, 1), WallTime |-> Float(1, 1),
      Memory |-> 1],
     [Verdict |-> "OK", Time |-> Float(1, 1), WallTime |-> Float(2, 1),
      Memory |-> 2],
     [Verdict |-> "RTE", Time |-> Float(0, 1), WallTime |-> Float(1, 1),
      Memory |-> 3],
     [Verdict |-> "TLE", Time |-> Float(2, 1), WallTime |-> Float(2, 1),
      Memory |-> 1]}

NoMeta == [Verdict |-> "", Time |-> 0, WallTime |-> 0, Memory |-> 0]

\* RunMetadata{Verdict: "OK"}
OkMeta == [Verdict |-> "OK", Time |-> 0, WallTime |-> 0, Memory |-> 0]

max64(a, b) == IF a > b THEN a ELSE b

\* the .out, .err and .meta path of binary b for case j
Paths(j, b) == <<<<j, b, "out">>, <<j, b, "err">>, <<j, b, "meta">>>>

\* the locals of the sandboxed branch before the tasks of a case are
\* launched
NewCase(g, j) ==
    [g EXCEPT !.pc = "launch", !.j = j, !.b = 1, !.i = 0,
              !.task = [b \in DOMAIN g.binaries |->
                          [pc |-> "none", meta |-> NoMeta, loaded |-> <<>>]],
              !.metaChan = <<>>, !.closed = FALSE, !.received = <<>>,
              !.hasParent = FALSE, !.parentMetadata = NoMeta,
              !.chosenMetadata = OkMeta, !.chosenMetadataEmpty = TRUE,
              !.totalTime = 0, !.totalWallTime = 0, !.totalMemory = 0]

\* runResult after the cases whose metadata is given, in order
RECURSIVE MergedRun(_)
MergedRun(metas) ==
    IF metas = <<>> THEN OkMeta
    ELSE LET r == MergedRun(SubSeq(metas, 1, Len(metas) - 1))
             runMeta == metas[Len(metas)] IN
         [Verdict |-> worseVerdict(r.Verdict, runMeta.Verdict),
          Time |-> Add(r.Time, runMeta.Time),
          WallTime |-> Add(r.WallTime, runMeta.WallTime),
          Memory |-> max64(r.Memory, runMeta.Memory)]

\* Grade in the execution phase, before the tasks of a sandboxed case are
\* launched, the cases before it having the given metadata:
\* regularBinaryCount was taken before the validator's binary was appended.
\* received and caseResults are history: the binaries in the order their
\* messages were received, and the metadata recorded for each case.
NewCaseRun(bins, custom, earlier) ==
    NewCase([pc |-> "launch", j |-> 1, b |-> 1, i |-> 0,
             binaries |-> IF custom THEN Append(bins, binaryValidator)
                          ELSE bins,
             regularBinaryCount |-> Len(bins),
             generatedFiles |-> <<>>,
             runResult |-> MergedRun(earlier),
             caseResults |-> [k \in DOMAIN earlier |-> [Meta |-> earlier[k]]],
             task |-> <<>>, metaChan |-> <<>>, closed |-> FALSE,
             received |-> <<>>, hasParent |-> FALSE,
             parentMetadata |-> NoMeta, chosenMetadata |-> OkMeta,
             chosenMetadataEmpty |-> TRUE,
             totalTime |-> 0, totalWallTime |-> 0, totalMemory |-> 0],
            Len(earlier) + 1)

\* for _, bin := range binaries: one iteration, go func(bin) unless the
\* binary is the validator's
CaseLaunch ==
    /\ grade.pc = "launch"
    /\ grade' = IF grade.b > Len(grade.binaries)
                THEN [grade EXCEPT !.pc = "aggregate"]
                ELSE IF grade.binaries[grade.b] = binaryValidator
                THEN [grade EXCEPT !.b = @ + 1]
                ELSE [grade EXCEPT !.b = @ + 1,
                                   !.task[grade.b].pc = "start"]
    /\ UNCHANGED <<cfg, runs, ready, run, mapping, inflight, th, post>>

\* the task of binary b: sandbox.Run returns, and append reads the slice
\* generatedFiles
TaskRun(b) ==
    /\ grade.task[b].pc = "start"
    /\ \E meta \in SandboxMetas :
          grade' = [grade EXCEPT !.task[b] =
                      [pc |-> "loaded", meta |-> meta,
                       loaded |-> grade.generatedFiles]]
    /\ UNCHANGED <<cfg, runs, ready, run, mapping, inflight, th, post>>

\* the task of binary b: generatedFiles = append(generatedFiles, ...) writes
\* the slice it read with the three paths after it
TaskAppend(b) ==
    /\ grade.task[b].pc = "loaded"
    /\ grade' = [grade EXCEPT
                   !.generatedFiles = grade.task[b].loaded \o Paths(grade.j, b),
                   !.task[b].pc = "send", !.task[b].loaded = <<>>]
    /\ UNCHANGED <<cfg, runs, ready, run, mapping, inflight, th, post>>

\* the task of binary b: metaChan <- intermediateRunResult{runMeta,
\* bin.binaryType}, on a channel of capacity 1; on a closed channel the
\* send panics
TaskSend(b) ==
    /\ grade.task[b].pc = "send"
    /\ IF grade.closed
       THEN grade' = [grade EXCEPT !.task[b].pc = "panic"]
       ELSE /\ Len(grade.metaChan) < 1
            /\ grade' = [grade EXCEPT
                           !.metaChan = Append(@, [runMeta |-> grade.task[b].meta,
                                                   binaryType |-> grade.binaries[b],
                                                   from |-> b]),
                           !.task[b].pc = "done"]
    /\ UNCHANGED <<cfg, runs, ready, run, mapping, inflight, th, post>>

\* a variant of MoreToReceive that stops one message early
MoreButTheLast(i, n) == i < n - 1

\* for i := 0; i < regularBinaryCount; i++
MoreToReceive(i, n) == i < n

\* totalMemory += max64(totalMemory, intermediateResult.runMeta.Memory)
MemoryAfter(total, memory) == total + max64(total, memory)

\* intermediateResult := <-metaChan and the body of the loop
CaseReceive ==
    /\ grade.pc = "aggregate"
    /\ MoreToReceive(grade.i, grade.regularBinaryCount)
    /\ grade.metaChan # <<>>
    /\ LET intermediateResult == Head(grade.metaChan)
           runMeta == intermediateResult.runMeta
           got == [grade EXCEPT !.metaChan = Tail(@), !.i = @ + 1,
                                !.received = Append(@, intermediateResult.from)]
           summed == [got EXCEPT
                        !.totalTime = Add(@, runMeta.Time),
                        !.totalWallTime = Add(@, runMeta.WallTime),
                        !.totalMemory = MemoryAfter(@, runMeta.Memory)] IN
       grade' = IF intermediateResult.binaryType = binaryProblemsetter
                THEN [got EXCEPT !.hasParent = TRUE,
                                 !.parentMetadata = runMeta]
                ELSE IF runMeta.Verdict # "OK" /\ grade.chosenMetadataEmpty
                THEN [summed EXCEPT !.chosenMetadata = runMeta,
                                    !.chosenMetadataEmpty = FALSE]
                ELSE summed
    /\ UNCHANGED <<cfg, runs, ready, run, mapping, inflight, th, post>>

\* the verdict of the case: if parentMetadata != nil &&
\* parentMetadata.Verdict != "OK" has an empty body
CaseVerdict(chosen, hasParent, parent) == chosen.Verdict

\* close(metaChan) after the loop, and runMeta = &chosenMetadata with the
\* totals
CaseClose ==
    /\ grade.pc = "aggregate"
    /\ ~MoreToReceive(grade.i, grade.regularBinaryCount)
    /\ grade' = [grade EXCEPT
                   !.pc = "closed", !.closed = TRUE,
                   !.chosenMetadata =
                      [Verdict |-> CaseVerdict(grade.chosenMetadata,
                                               grade.hasParent,
                                               grade.parentMetadata),
                       Time |-> grade.totalTime,
                       WallTime |-> grade.totalWallTime,
                       Memory |-> grade.totalMemory]]
    /\ UNCHANGED <<cfg, runs, ready, run, mapping, inflight, th, post>>

\* the metadata of the case is merged into the run's and recorded
CaseRecord ==
    /\ grade.pc = "closed"
    /\ LET runMeta == grade.chosenMetadata IN
       grade' = [grade EXCEPT
                   !.pc = "done",
                   !.runResult =
                      [Verdict |-> worseVerdict(@.Verdict, runMeta.Verdict),
                       Time |-> Add(@.Time, runMeta.Time),
                       WallTime |-> Add(@.WallTime, runMeta.WallTime),
                       Memory |-> max64(@.Memory, runMeta.Memory)],
                   !.caseResults = Append(@, [Meta |-> runMeta])]
    /\ UNCHANGED <<cfg, runs, ready, run, mapping, inflight, th, post>>

CaseNext ==
    \/ CaseLaunch
    \/ \E b \in DOMAIN grade.task : TaskRun(b) \/ TaskAppend(b) \/ TaskSend(b)
    \/ CaseReceive
    \/ CaseClose
    \/ CaseRecord

\* the metadata recorded for a case in which each of n contestant binaries
\* reported meta, and the problem-setter's ended OK
RECURSIVE Aggregated(_, _)
Aggregated(n, meta) ==
    IF n = 0 THEN OkMeta
    ELSE LET t == Aggregated(n - 1, meta) IN
         [Verdict |-> IF t.Verdict # "OK" THEN t.Verdict ELSE meta.Verdict,
          Time |-> Add(t.Time, meta.Time),
          WallTime |-> Add(t.WallTime, meta.WallTime),
          Memory |-> MemoryAfter(t.Memory, meta.Memory)]

\* the contestant binaries of a plan
Contestants(bins) ==
    Cardinality({b \in DOMAIN bins : bins[b] = binaryContestant})

\* the cases before the one that is followed: none, or one in which every
\* contestant binary reported 2 bytes
Earlier(bins) ==
    {<<>>} \cup {<<Aggregated(Contestants(bins), meta)>> :
                    meta \in {m \in SandboxMetas : m.Memory = 2}}

(* One sandboxed case in the execution phase of a run, the first or the    *)
(* second, for every plan of binaries, with and without a custom           *)
(* validator, whatever the sandbox reports and however the tasks of the    *)
(* case interleave                                                         *)

CaseInit ==
    /\ InitGrader(ConcDepth, ConcRetries, {}, {}, {QueuePriorityNormal})
    /\ post = NewRunPostProcessor({})
    /\ grade \in UNION {{NewCaseRun(bins, custom, earlier) :
                            custom \in BOOLEAN, earlier \in Earlier(bins)} :
                         bins \in CasePlans}

CaseSpec == CaseInit /\ [][CaseNext]_vars

----------------------------------------------------------------------------
(* What the claims speak about *)

\* how many times run r sits on the FIFO of priority p, and on all of them
OnFifo(p, r) == Cardinality({i \in 1..Len(runs[p]) : runs[p][i] = r})

Occurrences(r) ==
    OnFifo(QueuePriorityHigh, r) + OnFifo(QueuePriorityNormal, r)
        + OnFifo(QueuePriorityLow, r)

TotalQueued ==
    Len(runs[QueuePriorityHigh]) + Len(runs[QueuePriorityNormal])
        + Len(runs[QueuePriorityLow])

\* run r is registered in the monitor mapping
InMonitor(r) == \E a \in DOMAIN mapping : inflight[mapping[a]].run = r

\* AddRun(r) has returned
Added(r) == AdderOf(r) \in DOMAIN th /\ th[AdderOf(r)].pc = "added"

\* some thread is inside an operation on run r
Busy(r) == \E t \in DOMAIN th : th[t].run = r /\ ~Resting(t)

\* the threads at one of the program counters pcs
At(pcs) == {t \in DOMAIN th : th[t].pc \in pcs}

----------------------------------------------------------------------------
(* C1: queued, inflight or closed *)

\* the three states of a run
Queued(r) == Occurrences(r) >= 1

States(r) ==
    {x \in {"queued", "inflight", "closed"} :
        \/ x = "queued" /\ Queued(r)
        \/ x = "inflight" /\ InMonitor(r)
        \/ x = "closed" /\ run[r].closed}

\* C1: every run that was added, and that no operation is working on, is in
\* exactly one of the states queued (held once by one FIFO), inflight
\* (registered in the monitor mapping) and closed.
ExactlyOneState ==
    \A r \in DOMAIN run :
        Added(r) /\ ~Busy(r)
            => Cardinality(States(r)) = 1 /\ Occurrences(r) <= 1

----------------------------------------------------------------------------
(* C2: one post-processor event per closed run *)

\* C2: once a Close of a run has written its artifacts and returned, exactly
\* one RunInfo of the run was handed to PostProcess.
OnePostProcessEvent ==
    \A r \in DOMAIN run :
        run[r].readyClosed > 0 /\ ~Busy(r) => run[r].postProcessed = 1

----------------------------------------------------------------------------
(* C3: the retry budget *)

\* the Requeue calls in progress that found the budget exhausted
ExhaustedCalls == {t \in DOMAIN th : th[t].why = "exhausted"}

\* C3 as the specification states it: of the Requeue calls on a run that
\* was never retried after a JE, the first MaxGradeRetries ones return true,
\* so that a call that finds the budget exhausted is a later one.
BudgetOfMaxGradeRetriesRequeues ==
    \A t \in ExhaustedCalls :
        ~run[th[t].run].jeRetried
            => run[th[t].run].requeues > cfg.MaxGradeRetries

\* C3: of the Requeue calls on a run created with tries = MaxGradeRetries
\* and never retried after a JE, the first MaxGradeRetries - 1 ones go on to
\* enqueue the run, and one that returns true leaves it on the High FIFO;
\* the call number MaxGradeRetries, and every later one, finds the budget
\* exhausted and closes the run; the input is released and the artifacts
\* are written at most once.
BudgetOfMaxGradeRetriesAttempts ==
    /\ \A r \in DOMAIN run :
          /\ ~run[r].jeRetried
                => run[r].tries = cfg.MaxGradeRetries - run[r].requeues
          /\ run[r].released <= 1
          /\ run[r].readyClosed <= 1
    /\ \A t \in DOMAIN th :
          LET r == th[t].run IN
          /\ th[t].pc = "rq3" /\ ~run[r].jeRetried
                => run[r].requeues <= cfg.MaxGradeRetries - 1
          /\ th[t].pc = "rq4" => OnFifo(QueuePriorityHigh, r) >= 1
          /\ t \in ExhaustedCalls /\ ~run[r].jeRetried
                => run[r].requeues >= cfg.MaxGradeRetries
          /\ t \in ExhaustedCalls /\ th[t].pc \in {"cl2", "cl3", "cl4"}
                => run[r].closed

\* the call number MaxGradeRetries found the budget exhausted and is about
\* to close the run
LastTryExhausted ==
    \E t \in ExhaustedCalls :
        /\ th[t].pc = "cl1"
        /\ ~run[th[t].run].closed
        /\ ~run[th[t].run].jeRetried
        /\ run[th[t].run].requeues = cfg.MaxGradeRetries

----------------------------------------------------------------------------
(* C4: the retry after a JE *)

----------------------------------------------------------------------------
(* C5: a run its runners abandon *)

\* C5: a run whose runners never contact the grader is requeued by its
\* supervisor at each connect deadline, every Requeue taking exactly 1 from
\* tries; as long as it keeps being dequeued, a run that was dispatched is
\* eventually closed with verdict JE, at the latest when tries reaches 0;
\* and a closed run is in no FIFO, not in the monitor, and never handed to
\* the monitor again.
AbandonedRunIsClosed ==
    /\ \A r \in TimeoutRuns :
          InMonitor(r) ~> (run[r].closed /\ run[r].Verdict = "JE")
    /\ [][\A r \in DOMAIN run :
             /\ run'[r].requeues = run[r].requeues + 1
                   => run'[r].tries = run[r].tries - 1
             /\ run'[r].requeues = run[r].requeues
                   => run'[r].tries = run[r].tries]_vars
    /\ [](\A r \in DOMAIN run :
             /\ run[r].tries >= 0
             /\ run[r].tries = 0
                   => \/ run[r].closed
                      \/ \E t \in ExhaustedCalls : th[t].run = r
             /\ run[r].closed /\ ~Busy(r) => ~Queued(r) /\ ~InMonitor(r))
    /\ [](\A t \in DOMAIN th :
             th[t].pc = "add" => ~run[th[t].run].closed)

\* a run was abandoned MaxGradeRetries times and is closed
AbandonedToTheEnd ==
    \E r \in DOMAIN run :
        /\ run[r].closed
        /\ run[r].Verdict = "JE"
        /\ run[r].tries = 0
        /\ run[r].requeues = cfg.MaxGradeRetries
        /\ ~Busy(r)

----------------------------------------------------------------------------
(* C6: where a requeued run goes *)

\* C6: when a Requeue call returns true, the run is on the High FIFO, its
\* attempt id differs from the one it had when the call was made, and that
\* one is not a key of the monitor mapping.
RequeuedOnHighWithNewAttempt ==
    [][\A t \in DOMAIN th :
          th[t].pc = "rq4" /\ (t \notin DOMAIN th' \/ th'[t].pc # "rq4")
             => /\ \E i \in 1..Len(runs'[QueuePriorityHigh]) :
                      runs'[QueuePriorityHigh][i] = th[t].run
                /\ run'[th[t].run].AttemptID # th[t].old
                /\ <<th[t].run, th[t].old>> \notin DOMAIN mapping']_vars

\* a Requeue of a run that was added with priority Low is about to return
\* true
LowRunRequeued ==
    \E t \in DOMAIN th :
        /\ th[t].pc = "rq4"
        /\ run[th[t].run].Priority = QueuePriorityLow
        /\ ready < 3 * cfg.channelLength

----------------------------------------------------------------------------
(* C7: tries only go down *)

\* C7: no step of a Requeue, with lastAttempt or without, increases tries;
\* a run whose tries are at zero or below is closed, or the Requeue call
\* that brought them there is about to close it, and when a call that found
\* the budget exhausted returns, the run is closed with the verdict it had.
TriesOnlyGoDown ==
    /\ [][\A r \in DOMAIN run : run'[r].tries <= run[r].tries]_vars
    /\ [](\A r \in DOMAIN run :
             run[r].tries <= 0
                => \/ run[r].closed
                   \/ \E t \in ExhaustedCalls :
                         th[t].run = r /\ th[t].pc = "cl1")
    /\ [][\A t \in ExhaustedCalls :
             /\ run'[th[t].run].Verdict = run[th[t].run].Verdict
             /\ (t \notin DOMAIN th' \/ th'[t].why # "exhausted")
                   => run'[th[t].run].closed]_vars

\* a Requeue with lastAttempt = TRUE brought tries to zero and closed the
\* run
ClosedAtZeroTries ==
    \E t \in ExhaustedCalls :
        /\ th[t].pc = "cl2"
        /\ th[t].lastAttempt
        /\ run[th[t].run].tries = 0
        /\ run[th[t].run].Verdict = "JE"

----------------------------------------------------------------------------
(* C8: a token stands for a run *)

\* C8: however enqueueBlocking, enqueue and GetRun callers interleave, no
\* GetRun reaches the panic after its scan of the three FIFOs.
ScanFindsARun == \A t \in DOMAIN th : th[t].pc # "panic"

\* a GetRun is past the High FIFO in its scan while an enqueue has sent a
\* run and not yet its token
ScanRacesEnqueue ==
    \E t \in DOMAIN th, u \in DOMAIN th :
        /\ th[t].pc = "scan"
        /\ th[t].tmp # QueuePriorityHigh
        /\ th[u].pc = "rq4"

----------------------------------------------------------------------------
(* C9: tokens and queued runs *)

\* C9 as the specification states it: the number of tokens in the readiness
\* channel is the sum of the lengths of the three FIFOs.
TokensEqualQueued == ready = TotalQueued

\* C9: the sum of the lengths of the three FIFOs is the number of tokens in
\* the readiness channel, plus the enqueue and enqueueBlocking calls that
\* sent their run and not yet their token, plus the GetRun calls that took a
\* token and not yet a run; with no such call in progress the two are equal.
TokensAndCallsEqualQueued ==
    TotalQueued
        = ready + Cardinality(At({"token", "rq4"})) + Cardinality(At({"scan"}))

\* an enqueueBlocking is between its two sends and a GetRun between its
\* two receives
EnqueueAndGetRunHalfway ==
    /\ At({"token"}) # {}
    /\ At({"scan"}) # {}
    /\ ready # TotalQueued

----------------------------------------------------------------------------
(* C10: strict priority *)

\* C10: with a single dequeuer and no enqueue in progress, the run GetRun
\* returns comes from the first non-empty FIFO in the order High, Normal,
\* Low: every FIFO of a higher priority is empty.
DequeueStrictPriority ==
    \A t \in DOMAIN th :
        th[t].pc = "add"
            => \A p \in Priorities : p < th[t].tmp => runs[p] = <<>>

\* GetRun returns the run of the High FIFO while runs wait on the Normal and
\* the Low FIFO
HighBeforeNormalAndLow ==
    \E t \in DOMAIN th :
        /\ th[t].pc = "add"
        /\ th[t].tmp = QueuePriorityHigh
        /\ runs[QueuePriorityNormal] # <<>>
        /\ runs[QueuePriorityLow] # <<>>

----------------------------------------------------------------------------
(* C11: first in, first out *)

\* C11: every step that changes a FIFO either puts a run behind the runs
\* the FIFO holds or takes the run at its head, which is the run GetRun
\* returns; the runs of a FIFO are therefore returned in the order in which
\* they were placed on it.
FifoOrder ==
    [][\A p \in Priorities :
          \/ runs'[p] = runs[p]
          \/ \E r \in DOMAIN run : runs'[p] = runs[p] \o <<r>>
          \/ /\ runs[p] # <<>>
             /\ runs'[p] = Tail(runs[p])
             /\ \E t \in DOMAIN th :
                   /\ th[t].pc = "scan"
                   /\ th'[t].pc = "add"
                   /\ th'[t].run = Head(runs[p])]_vars

\* GetRun returned the first of two different runs of one FIFO
FirstOfTwoReturned ==
    \E t \in DOMAIN th :
        /\ th[t].pc = "add"
        /\ runs[th[t].tmp] # <<>>
        /\ Head(runs[th[t].tmp]) # th[t].run

----------------------------------------------------------------------------
(* C12: a cancelled GetRun *)

\* C12: a GetRun that returns because its close-notifier fired returns no
\* run and no attempt, and leaves the readiness channel, the FIFOs, the
\* monitor and the runs as they were; the tokens keep standing for the
\* queued runs, so that no later GetRun finds the FIFOs empty.
CancelChangesNothing ==
    /\ [][\A t \in DOMAIN th :
             th[t].pc = "idle" /\ th'[t].pc = "cancelled"
                => /\ ready' = ready
                   /\ runs' = runs
                   /\ mapping' = mapping
                   /\ inflight' = inflight
                   /\ run' = run
                   /\ th'[t].run = NoRun
                   /\ th'[t].att = NoAttempt]_vars
    /\ [](TotalQueued
            = ready + Cardinality(At({"token", "rq4"}))
                + Cardinality(At({"scan"})))
    /\ [](\A t \in DOMAIN th : th[t].pc # "panic")

\* a GetRun was cancelled on an empty queue that had held a run before
CancelledOnEmptyQueue ==
    \E t \in DOMAIN th :
        /\ th[t].pc = "cancelled"
        /\ ready = 0
        /\ TotalQueued = 0
        /\ \E r \in DOMAIN run : InMonitor(r)

----------------------------------------------------------------------------
(* C13: the order of the effects of Close *)

\* the elements of a sequence
Range(q) == {q[i] : i \in 1..Len(q)}

\* listener l has received the RunInfo of run r
DeliveredTo(l, r) == r \in Range(post.delivered[l])

\* C13: the closed flag is set and the input handle released before the
\* Ready() latch of the run is closed, and the latch is closed before the
\* run is handed to PostProcess, hence before any listener receives it:
\* in every state and at every step that closes the latch, posts or
\* delivers.
CloseThenReadyThenDelivery ==
    /\ [](\A r \in DOMAIN run :
            /\ run[r].readyClosed >= 1
                  => run[r].closed /\ ~run[r].input /\ run[r].released = 1
            /\ r \in Range(post.posted) => run[r].readyClosed >= 1
            /\ r \in Range(post.finishedRuns) \/ post.cur = r
                  => r \in Range(post.posted)
            /\ \A l \in DOMAIN post.delivered :
                  DeliveredTo(l, r) => r \in Range(post.posted))
    /\ [][\A r \in DOMAIN run :
            /\ run'[r].readyClosed > run[r].readyClosed
                  => run[r].closed /\ ~run[r].input
            /\ Len(post'.posted) > Len(post.posted)
                    /\ post'.posted[Len(post'.posted)] = r
                  => run[r].readyClosed >= 1
            /\ \A l \in DOMAIN post.delivered :
                  DeliveredTo(l, r)' /\ ~DeliveredTo(l, r)
                      => run[r].readyClosed >= 1]_vars

\* a listener has received a run whose Close released the input and closed
\* the latch, while the other run is still open
DeliveredAfterReady ==
    \E r \in DOMAIN run, l \in DOMAIN post.delivered :
        /\ DeliveredTo(l, r)
        /\ run[r].closed /\ run[r].released = 1 /\ run[r].readyClosed = 1
        /\ \E q \in DOMAIN run : ~run[q].closed

----------------------------------------------------------------------------
(* C14: a registered listener misses no run *)

\* AddListener(l) had returned when the k-th PostProcess sent its run
RegisteredBefore(l, k) ==
    /\ post.reg[l] = "done"
    /\ post.since[l] < k
    /\ k <= Len(post.posted)

\* listener l has received the run of the k-th PostProcess
GotPosted(l, k) ==
    k <= Len(post.posted) /\ DeliveredTo(l, post.posted[k])

\* the post-processor's goroutine has nothing left to do
PostProcessorIdle ==
    post.pc = "select" /\ post.finishedRuns = <<>> /\ post.listenerChan = <<>>

\* C14: when AddListener(l) returns, l is in the listeners slice; every run
\* that PostProcess sends after that return is delivered to l, given that
\* the goroutine is scheduled and the listeners take what they are sent;
\* and once the goroutine has nothing left to do, l has got each of them.
RegisteredListenerMissesNothing ==
    /\ [](\A l \in PostListeners :
            /\ post.reg[l] = "done" => l \in Range(post.listeners)
            /\ PostProcessorIdle
                  => \A k \in 1..Len(post.posted) :
                        RegisteredBefore(l, k) => GotPosted(l, k))
    /\ \A l \in PostListeners, k \in 1..Cardinality(PostRuns) :
          RegisteredBefore(l, k) ~> GotPosted(l, k)

\* a listener whose AddListener returned between the two PostProcess calls
\* has received the second run and not the first
LateListenerGotLaterRun ==
    \E l \in PostListeners :
        /\ post.reg[l] = "done"
        /\ post.since[l] = 1
        /\ Len(post.posted) = 2
        /\ DeliveredTo(l, post.posted[2])
        /\ ~DeliveredTo(l, post.posted[1])

----------------------------------------------------------------------------
(* C15: the order of the deliveries *)

\* sequence q is a run of consecutive elements of sequence w
SegmentOf(q, w) ==
    \E a \in 0..Len(w) :
        /\ a + Len(q) <= Len(w)
        /\ \A i \in 1..Len(q) : q[i] = w[a + i]

\* C15: what a listener has received is, in the order of the PostProcess
\* calls, a run of consecutive runs of those calls; the listeners slice
\* holds the listeners in the order AddListener sent them; while a run is
\* handed out, the listeners before post.idx have it as their last run and
\* the others do not have it; and a step gives one run to one listener.
DeliveredInPostOrder ==
    /\ [](/\ \A l \in DOMAIN post.delivered :
               SegmentOf(post.delivered[l], post.posted)
          /\ post.listeners \o post.listenerChan = post.registered
          /\ post.pc = "deliver"
                => \A j \in 1..Len(post.listeners) :
                      LET got == post.delivered[post.listeners[j]] IN
                      IF j < post.idx
                      THEN got # <<>> /\ got[Len(got)] = post.cur
                      ELSE post.cur \notin Range(got))
    /\ [][\A l, m \in DOMAIN post.delivered :
            /\ post'.delivered[l] # post.delivered[l]
                  => /\ post.pc = "deliver"
                     /\ l = post.listeners[post.idx]
                     /\ post'.delivered[l] = post.delivered[l] \o <<post.cur>>
            /\ post'.delivered[l] # post.delivered[l] /\ m # l
                  => post'.delivered[m] = post.delivered[m]]_vars

\* both listeners are registered and have the first run; the listener that
\* registered first has the second run and the other is about to get it
SecondRunHalfDelivered ==
    /\ Len(post.listeners) = 2
    /\ Len(post.posted) = 2
    /\ post.pc = "deliver" /\ post.idx = 2 /\ post.cur = post.posted[2]
    /\ post.delivered[post.registered[1]] = post.posted
    /\ post.delivered[post.registered[2]] = <<post.posted[1]>>

----------------------------------------------------------------------------
(* C16: a group with a failed case *)

\* Grade is past the validation of every group
Validated == grade.pc \in {"finish", "done"} /\ grade.executed > 0

ZeroVerdicts == {"WA", "RTE", "TLE", "MLE", "OLE", "RFE", "JE"}

\* some case of group i ended with one of the verdicts of ZeroVerdicts
HasFailedCase(i) ==
    \E j \in 1..Len(grade.Cases[i]) :
        grade.caseResults[i][j].Verdict \in ZeroVerdicts

\* C16: once the groups are validated, a group with a case that ended with
\* WA, RTE, TLE, MLE, OLE, RFE or JE has Score 0 and ContestScore 0, and
\* when every group has such a case the Score and the ContestScore of the
\* run are 0.
FailedCaseZeroesGroup ==
    Validated
        => /\ \A i \in 1..Len(grade.Cases) :
                 HasFailedCase(i)
                     => /\ grade.groupResults[i].Score = 0
                        /\ grade.groupResults[i].ContestScore = 0
           /\ (\A i \in 1..Len(grade.Cases) : HasFailedCase(i))
                 => /\ grade.runResult.Score = 0
                    /\ grade.runResult.ContestScore = 0

----------------------------------------------------------------------------
(* C17: the verdict of the run *)

\* Grade ran the cases and returned
Graded == grade.pc = "done" /\ grade.executed > 0

CaseIds ==
    UNION {{<<i, j>> : j \in 1..Len(grade.Cases[i])} :
              i \in 1..Len(grade.Cases)}

\* the worst verdict of a set of verdicts
WorstOf(vs) == CHOOSE v \in vs : \A w \in vs : worseVerdict(v, w) = v

\* the verdicts the cases ended with, and the ones they had after running
FinalVerdicts == {grade.caseResults[c[1]][c[2]].Verdict : c \in CaseIds}

RunVerdicts == {grade.caseResults[c[1]][c[2]].run : c \in CaseIds}

\* C17 as the specification states it: the verdict of a run whose cases
\* were executed is the worst of the verdicts its cases ended with.
VerdictIsWorstCaseVerdict ==
    Graded => grade.runResult.Verdict = WorstOf(FinalVerdicts)

\* C17: when a case failed at run time, the verdict of the run is the worst
\* of the verdicts the cases ended with, which is the worst run-time
\* verdict; otherwise it is AC when no validated case scored below 1, WA
\* when a case scored below 1 and the Score of the run is 0, and PA when a
\* case scored below 1 and the Score is positive, whether or not a case
\* ended with WA.
VerdictOfRun ==
    Graded
        => grade.runResult.Verdict =
             IF RunVerdicts # {"OK"}
             THEN WorstOf(FinalVerdicts)
             ELSE IF FinalVerdicts \subseteq {"AC", "OK"} THEN "AC"
             ELSE IF grade.runResult.Score = 0 THEN "WA"
             ELSE "PA"

\* the run ended with PA, with one case that ended with WA and one with AC
PartialWithWrongCase ==
    /\ Graded
    /\ grade.runResult.Verdict = "PA"
    /\ FinalVerdicts = {"WA", "AC"}

----------------------------------------------------------------------------
(* C18: Score and ContestScore *)

\* C18: in the RunResult Grade returns, Score is at least 0 and at most 1
\* and ContestScore is MaxScore times Score.
ScoreWithinBounds ==
    grade.pc = "done"
        => LET r == grade.runResult IN
           /\ 0 <= r.Score /\ r.Score <= One
           /\ r.ContestScore * Unit = r.MaxScore * r.Score

----------------------------------------------------------------------------
(* C19: worseVerdict *)

\* the place of a verdict in the order JE, CE, MLE, RFE, RTE, TLE, OLE, WA,
\* PA, AC, OK
Rank(v) ==
    CHOOSE i \in 1..11 :
        <<"JE", "CE", "MLE", "RFE", "RTE", "TLE", "OLE", "WA", "PA", "AC",
          "OK">>[i] = v

\* C19: for any three of the eleven verdicts, worseVerdict gives the same
\* verdict in either grouping and in either order of its arguments, gives
\* a for (a, a), and gives the argument that comes earlier in the order
\* JE, CE, MLE, RFE, RTE, TLE, OLE, WA, PA, AC, OK.
WorseVerdictIsMinimum ==
    grade.pc = "merged"
        => /\ grade.ab_c = grade.a_bc
           /\ grade.ab = grade.ba
           /\ grade.aa = grade.a
           /\ grade.ab = IF Rank(grade.a) <= Rank(grade.b)
                         THEN grade.a ELSE grade.b

\* AC, WA and JE were merged: AC and WA give WA, and the three give JE
AcceptedWrongJudgeError ==
    /\ grade.pc = "merged"
    /\ grade.a = "AC" /\ grade.b = "WA" /\ grade.c = "JE"
    /\ grade.ab = "WA"
    /\ grade.ab_c = "JE" /\ grade.a_bc = "JE"

----------------------------------------------------------------------------
(* C20: a compile failure *)

\* the k-th call of sandbox.Compile returned an error or a verdict other
\* than OK
FailedCompile(k) ==
    grade.compiled[k].err \/ grade.compiled[k].Verdict # "OK"

\* C20: when the compilation of a binary fails, it is the last one Grade
\* compiles: Grade has returned, with the error of the sandbox if there was
\* one, the verdict CE and a CompileError that starts with the name of the
\* binary; no case was executed or validated, and Score and ContestScore are
\* 0.  The binaries are compiled in the order of the plan.
CompileFailureEndsGrade ==
    /\ Len(grade.compiled) <= Len(grade.binaries)
    /\ \A k \in 1..Len(grade.compiled) :
          /\ grade.compiled[k].name = grade.binaries[k]
          /\ FailedCompile(k)
                => /\ k = Len(grade.compiled)
                   /\ grade.pc = "done"
                   /\ grade.err = grade.compiled[k].err
                   /\ grade.runResult.Verdict = "CE"
                   /\ grade.runResult.CompileError = grade.compiled[k].name
                   /\ grade.executed = 0 /\ grade.validated = 0
                   /\ grade.runResult.Score = 0
                   /\ grade.runResult.ContestScore = 0

\* the first of two binaries did not compile: Grade returned CE without
\* compiling the validator
MainDidNotCompile ==
    /\ grade.pc = "done"
    /\ Len(grade.binaries) = 2
    /\ Len(grade.compiled) = 1
    /\ FailedCompile(1) /\ ~grade.compiled[1].err
    /\ grade.runResult.Verdict = "CE"
    /\ grade.runResult.CompileError = "Main"


-----------------------------------------------------------------------------
(* C21: the wall-time guard *)

RECURSIVE Flatten(_)
Flatten(groups) ==
    IF groups = <<>> THEN <<>> ELSE Head(groups) \o Flatten(Tail(groups))

\* the results of the cases, in the order of their declaration
InOrder == Flatten(grade.caseResults)

RECURSIVE WallBefore(_, _)
\* the wall time accumulated by the cases before the n-th one
WallBefore(r, n) ==
    IF n = 1 THEN 0 ELSE Add(WallBefore(r, n - 1), r[n - 1].wall)

\* scenario S5: three cases of 2 seconds each under a limit of 3 seconds
S5 ==
    /\ grade.pc # "idle"
    /\ Len(Flatten(grade.Cases)) = 3
    /\ grade.wallTimes = {2}
    /\ grade.OverallWallTimeLimit = 3000

\* C21 as the specification states it: in S5 the first case is executed,
\* the second one is not and gets a TLE from the guard, and the verdict of
\* the run is TLE.
SecondCaseNotExecuted ==
    S5 /\ Graded
        => /\ InOrder[1].sandboxed
           /\ ~InOrder[2].sandboxed /\ InOrder[2].run = "TLE"
           /\ grade.runResult.Verdict = "TLE"

\* C21: a case is executed exactly when the wall time of the cases before it
\* does not exceed the limit, and otherwise gets a TLE from the guard and adds
\* no wall time.  In S5 the first and the second case are executed (2 s do
\* not exceed 3 s), the third one is not and gets the TLE, and the verdict of
\* the run is TLE or worse: TLE when both executed cases ran to an OK.
GuardComparesBeforeEachCase ==
    /\ grade.pc \in {"run", "validate", "group", "finish", "done"}
          => \A n \in 1..Len(InOrder) :
                InOrder[n].run # ""
                   => /\ InOrder[n].sandboxed
                            <=> ~(WallBefore(InOrder, n)
                                    > WallTimeLimitOf(grade.OverallWallTimeLimit))
                      /\ ~InOrder[n].sandboxed
                            => InOrder[n].run = "TLE" /\ InOrder[n].wall = 0
    /\ S5 /\ Graded
          => /\ InOrder[1].sandboxed /\ InOrder[2].sandboxed
             /\ ~InOrder[3].sandboxed /\ InOrder[3].run = "TLE"
             /\ grade.executed = 2
             /\ Rank(grade.runResult.Verdict) <= Rank("TLE")
             /\ InOrder[1].run = "OK" /\ InOrder[2].run = "OK"
                   => grade.runResult.Verdict = "TLE"

\* S5 graded: two cases ran to an OK, the third one was not run
ThirdCaseNotExecuted ==
    /\ S5 /\ Graded
    /\ InOrder[1].run = "OK" /\ InOrder[2].run = "OK"
    /\ ~InOrder[3].sandboxed
    /\ grade.runResult.Verdict = "TLE"


-----------------------------------------------------------------------------
(* C22: the files of an output-only submission *)

\* parseOutputOnlyFile has returned the files of a zip archive
Parsed == grade.pc = "parsed" /\ grade.data.dataurl /\ grade.data.zip

\* entry k of the archive has the name <case>.out of a case of the problem,
\* under any directories
Declared(k) ==
    \E c \in grade.settings.Cases, i \in 0..Len(grade.data.File[k].Name) :
        /\ SubSeq(grade.data.File[k].Name, i + 1, Len(grade.data.File[k].Name))
              = c \o Out
        /\ i > 0 => grade.data.File[k].Name[i] = "/"
        /\ \A m \in 1..Len(c) : c[m] # "/"

\* the case c with name.out as the name of entry k, under any directories
CaseOf(k) ==
    CHOOSE c \in grade.settings.Cases :
        \E i \in 0..Len(grade.data.File[k].Name) :
            SubSeq(grade.data.File[k].Name, i + 1,
                   Len(grade.data.File[k].Name)) = c \o Out
               /\ (i > 0 => grade.data.File[k].Name[i] = "/")

TooLarge(k) == Len(grade.data.File[k].data) > grade.settings.OutputLimit

\* entry k gives its case a value: it is too large, or it can be read
Gives(k) == Declared(k) /\ (TooLarge(k) \/ ~grade.data.File[k].damaged)

\* C22: decoding the data URL of a zip archive gives a mapping whose keys
\* are the names <case>.out of the cases of the problem that some entry,
\* at the top level or under any directories, gives a value; the value is
\* that of the last such entry of the case: the empty string when the entry
\* is larger than Limits.OutputLimit, its contents otherwise.  So an archive
\* of the one entry c.out with contents x within the limit decodes to
\* exactly {c.out: x}, and entries of other names are absent.
DecodeRoundTrip ==
    Parsed =>
       LET File == grade.data.File IN
       /\ ~grade.err
       /\ DOMAIN grade.result
             = {CaseOf(k) \o Out : k \in {k \in 1..Len(File) : Gives(k)}}
       /\ \A k \in 1..Len(File) :
             Gives(k) /\ (\A m \in (k + 1)..Len(File) :
                             Gives(m) => CaseOf(m) # CaseOf(k))
                => grade.result[CaseOf(k) \o Out]
                      = IF TooLarge(k) THEN <<>> ELSE File[k].data
       /\ Len(File) = 1 /\ Declared(1) /\ ~TooLarge(1) /\ ~File[1].damaged
             => grade.result = Put(<<>>, CaseOf(1) \o Out, File[1].data)

\* the archive of the one entry d/d/a.out with contents x, decoded for a
\* problem with the case a
PrefixedEntryDecoded ==
    /\ Parsed
    /\ <<"a">> \in grade.settings.Cases
    /\ grade.data
          = EncodeZip(<<ZipEntry(<<"d", "/", "d", "/", "a">> \o Out, <<"x">>)>>)
    /\ grade.settings.OutputLimit = 1
    /\ DOMAIN grade.result = {<<"a">> \o Out}
    /\ grade.result[<<"a">> \o Out] = <<"x">>


-----------------------------------------------------------------------------
(* C23: a supervisor whose attempt is gone *)

\* the deadline of supervisor t has passed, and monitor.timeout finds that
\* its attempt was removed from the monitor by another caller: before it
\* calls Requeue the record of its attempt is not in the mapping, and inside
\* Requeue the run had another attempt id when the call was entered
Stale(t) ==
    /\ IsSupervisor(t)
    /\ \/ /\ th[t].pc = "rq1"
          /\ \A a \in DOMAIN mapping : mapping[a] # RecordOf(t)
       \/ /\ th[t].pc \in {"rq2", "rq2w", "rq3", "rq4", "cl1", "cl2", "cl3",
                           "cl4"}
          /\ th[t].old # RecordOf(t)[2]

\* C23: the steps of a supervisor whose attempt was removed by another
\* caller before its timeout acts leave the runs, the mapping of the monitor
\* and the queue as they are: no newer attempt is removed, tries is not
\* decremented, the run is neither requeued nor closed.
StaleTimeoutDoesNothing ==
    [][\A t \in DOMAIN th :
          Stale(t) /\ t \in DOMAIN th' /\ th'[t] # th[t]
             => UNCHANGED <<run, mapping, runs, ready>>]_vars


-----------------------------------------------------------------------------
(* C24: overlapping calls of Requeue *)

\* C24: a run is held at most once by the FIFOs of its queue, and every
\* call of Requeue that decremented its tries took one from them: as long
\* as no call clamped them, the tries are MaxGradeRetries less the number
\* of calls, also for calls of a supervisor and of a handler that overlap.
HeldOnceAndEveryCallCounts ==
    \A r \in DOMAIN run :
        /\ Occurrences(r) <= 1
        /\ ~run[r].jeRetried
              => run[r].tries = cfg.MaxGradeRetries - run[r].requeues


-----------------------------------------------------------------------------
(* C25: the timeout channel of an inflight record *)

\* the supervisor of record rec is running
Supervised(rec) == SupervisorOf(rec) \in DOMAIN th

InRequeue(t) ==
    th[t].pc \in {"rq1", "rq2", "rq2w", "rq3", "rq4", "cl1", "cl2", "cl3",
                  "cl4"}

\* C25: the timeout channel of a record is closed by the last statement of
\* its supervisor and holds at most one value.  A supervisor calls Requeue
\* at most once, with lastAttempt false, and sends the value after the call
\* returned; a supervisor that was resumed by the removal of its attempt
\* closes the channel without a call and without a value.
TimeoutChannelClosedOnce ==
    \A rec \in DOMAIN inflight :
        LET t == SupervisorOf(rec) IN
        /\ inflight[rec].closed <=> ~Supervised(rec)
        /\ inflight[rec].timeout <= 1
        /\ Supervised(rec) =>
              /\ th[t].pc \in {"waitConnected", "waitReady"} \/ InRequeue(t)
                    => inflight[rec].timeout = 0 /\ th[t].returned = 0
              /\ InRequeue(t) => ~th[t].lastAttempt
              /\ th[t].pc = "send"
                    => /\ inflight[rec].timeout = 0 /\ th[t].returned = 1
                       /\ run[th[t].run].requeues >= 1
              /\ th[t].pc = "close"
                    => /\ inflight[rec].timeout = th[t].returned
                       /\ th[t].returned = 0
                             => \A a \in DOMAIN mapping : mapping[a] # rec
              /\ th[t].pc \in {"waitConnected", "waitReady", "send", "close"}
                    \/ InRequeue(t)

\* a supervisor whose deadline fired has called Requeue and sent the value,
\* and is about to close the channel
TimedOutAboutToClose ==
    \E rec \in DOMAIN inflight :
        /\ Supervised(rec)
        /\ th[SupervisorOf(rec)].pc = "close"
        /\ th[SupervisorOf(rec)].returned = 1
        /\ inflight[rec].timeout = 1


-----------------------------------------------------------------------------
(* C26: InflightMonitor.Remove *)

\* the records a run of RemoveSpec can get
RemoveRecords ==
    {<<1, a, k>> : a \in 1..(RemoveRetries + 1), k \in 1..(RemoveDepth + 1)}

\* Remove was called for the attempt of rec
Removed(rec) == rec \in DOMAIN inflight /\ inflight[rec].removed

\* the supervisor of rec waits in one of its selects
Waiting(rec) ==
    /\ Supervised(rec)
    /\ th[SupervisorOf(rec)].pc \in {"waitConnected", "waitReady"}

\* C26: Remove of an attempt that is in the mapping takes it out of the
\* mapping, clears the monitor pointer of its run and leaves a signal on
\* connected and on ready, without blocking on either; Remove of another id
\* changes nothing.  The supervisor of a removed attempt that waits in
\* either select, after any number of calls of Get, is resumed by the
\* signals and not by its deadline, and terminates.
RemoveEndsSupervisor ==
    /\ [](\A a \in DOMAIN mapping :
             /\ a \notin DOMAIN RemoveMapping(a)
             /\ \A b \in DOMAIN mapping \ {a} :
                   /\ b \in DOMAIN RemoveMapping(a)
                   /\ RemoveMapping(a)[b] = mapping[b]
             /\ ~RemoveRun(a)[inflight[mapping[a]].run].monitor
             /\ mapping[a] \in DOMAIN RemoveInflight(a)
                   => /\ RemoveInflight(a)[mapping[a]].connected = 1
                      /\ RemoveInflight(a)[mapping[a]].ready = 1)
    /\ [](\A r \in DOMAIN run : \A n \in 1..(RemoveRetries + 1) :
             <<r, n>> \notin DOMAIN mapping
                => /\ RemoveMapping(<<r, n>>) = mapping
                   /\ RemoveRun(<<r, n>>) = run
                   /\ RemoveInflight(<<r, n>>) = inflight)
    /\ [](\A rec \in DOMAIN inflight :
             Supervised(rec) /\ th[SupervisorOf(rec)].pc = "rq1"
                => ~Removed(rec))
    /\ \A rec \in RemoveRecords :
          (Waiting(rec) /\ Removed(rec)) ~> ~Supervised(rec)

\* the supervisor of a removed attempt waits for ready with a second signal
\* of Get left on connected
RemovedWhileWaiting ==
    \E rec \in DOMAIN inflight :
        /\ Waiting(rec) /\ Removed(rec)
        /\ th[SupervisorOf(rec)].pc = "waitReady"
        /\ inflight[rec].connected = 1 /\ inflight[rec].ready = 1


-----------------------------------------------------------------------------
(* C27: Requeue on a full High FIFO *)

\* thread t is in the call of run.Close() that Requeue makes when the High
\* FIFO is full
ClosingForFull(t) == th[t].why = "full"

\* C27: a Requeue that has tries left and finds the High FIFO full (as many
\* runs as channelLength) calls run.Close() and returns: from the failed
\* send to the return the FIFOs and the readiness tokens stay as they were,
\* the run is on no FIFO, and when the call returns the run is closed.  With
\* room on the High FIFO the run is appended to it.
FullFifoClosesRun ==
    /\ [][\A t \in DOMAIN th :
             th[t].pc = "rq3" /\ t \in DOMAIN th' /\ th'[t].pc # "rq3"
                => IF Len(runs[QueuePriorityHigh]) >= cfg.channelLength
                   THEN /\ run[th[t].run].tries > 0
                        /\ ClosingForFull(t)' /\ th'[t].pc = "cl1"
                        /\ runs' = runs /\ ready' = ready
                   ELSE /\ th'[t].pc = "rq4"
                        /\ runs' = [runs EXCEPT ![QueuePriorityHigh]
                                                   = Append(@, th[t].run)]]_vars
    /\ [][\A t \in DOMAIN th :
             ClosingForFull(t)
                => /\ runs' = runs /\ ready' = ready
                   /\ Occurrences(th[t].run) = 0
                   /\ t \in DOMAIN th' /\ ~ClosingForFull(t)'
                         => run'[th[t].run].closed]_vars

\* a run with tries left is being closed because the High FIFO was full
ClosedForFullFifo ==
    \E t \in DOMAIN th :
        /\ ClosingForFull(t)
        /\ th[t].pc = "cl3"
        /\ run[th[t].run].closed /\ run[th[t].run].tries > 0
        /\ Len(runs[QueuePriorityHigh]) = cfg.channelLength


-----------------------------------------------------------------------------
(* C28: the latch of Ready() *)

\* a call of Close on run r that won the swap has not yet reached
\* close(run.ready) or one of the returns before it
BeforeLatch(r) ==
    \E t \in DOMAIN th : th[t].run = r /\ th[t].pc \in {"cl2", "cl3"}

\* C28: run.ready is closed at most once, and it is closed once the first
\* Close of the run is past its writes, whether they succeeded or not.
LatchClosedByFirstClose ==
    \A r \in DOMAIN run :
        /\ run[r].readyClosed <= 1
        /\ run[r].closed /\ ~BeforeLatch(r) => run[r].readyClosed = 1


-----------------------------------------------------------------------------
(* C29: the input of a run *)

\* a call of Close on run r that won the swap has not yet released the input
BeforeRelease(r) == \E t \in DOMAIN th : th[t].run = r /\ th[t].pc = "cl2"

\* C29: the input a run holds is released at most once, by the call of
\* Close that finds the run open, and it is released once that call is past
\* the release; no other step releases it: not a Requeue that enqueues the
\* run, not a Close or a Requeue of a closed run.
InputReleasedOnce ==
    /\ [](\A r \in DOMAIN run :
             /\ run[r].released <= 1
             /\ run[r].released = 1 <=> ~run[r].input
             /\ run[r].released = 1 <=> run[r].closed /\ ~BeforeRelease(r))
    /\ [][\A r \in DOMAIN run :
             run'[r].released # run[r].released
                => \E t \in DOMAIN th :
                      /\ th[t].run = r /\ th[t].pc = "cl2"
                      /\ t \in DOMAIN th' /\ th'[t].pc = "cl3"]_vars

\* a closed run, its input released, is being requeued with tries left
ClosedRunRequeued ==
    \E t \in DOMAIN th :
        /\ th[t].pc = "rq4"
        /\ run[th[t].run].closed
        /\ run[th[t].run].released = 1


-----------------------------------------------------------------------------
(* C30: Queue.enqueue *)

\* the capacity of queue.ready
ReadyCap == 3 * cfg.channelLength

\* C30: enqueue blocks in neither of its sends.  On a full FIFO it leaves
\* the FIFOs and the tokens as they are and returns false; otherwise it
\* appends the run to the FIFO and then adds one token.  The send of the
\* token finds room: in every interleaving of enqueuers and dequeuers there
\* are at most as many tokens as runs on the FIFOs, which hold at most
\* 3 x channelLength runs.
EnqueueNeverBlocks ==
    /\ [](/\ ready <= TotalQueued
          /\ TotalQueued <= ReadyCap
          /\ \A t \in DOMAIN th :
                th[t].pc \in {"rq4", "token"} => ready < ReadyCap)
    /\ [][\A t \in DOMAIN th :
             /\ th[t].pc = "rq3" /\ t \in DOMAIN th' /\ th'[t].pc # "rq3"
                   => /\ ready' = ready
                      /\ IF Len(runs[QueuePriorityHigh]) = cfg.channelLength
                         THEN runs' = runs /\ th'[t].pc = "cl1"
                         ELSE /\ th'[t].pc = "rq4"
                              /\ Occurrences(th[t].run)'
                                    = Occurrences(th[t].run) + 1
                              /\ TotalQueued' = TotalQueued + 1
             /\ th[t].pc = "rq4" /\ t \in DOMAIN th' /\ th'[t].pc # "rq4"
                   => ready' = ready + 1 /\ runs' = runs]_vars

\* a requeued run is on the High FIFO and its token is the last one
\* queue.ready has room for
LastTokenAboutToBeSent ==
    \E t \in DOMAIN th :
        /\ th[t].pc = "rq4"
        /\ ready = ReadyCap - 1
        /\ TotalQueued = ReadyCap

----------------------------------------------------------------------------
(* C31: RunPostProcessor.Close *)

\* the channel of listener l has been closed
ListenerClosed(l) == l \in Range(post.closedListeners)

\* C31: after RunPostProcessor.Close the goroutine returns, given that it is
\* scheduled and the listeners take what they are sent; the listener
\* channels are closed in the order of the listeners slice, each once, and
\* all of them when the goroutine has returned; when the channel of a
\* listener is closed, the listener has received every run that PostProcess
\* sent after its AddListener returned, and nothing is sent to it afterwards.
CloseDeliversThenClosesListeners ==
    /\ post.closed ~> post.pc = "returned"
    /\ [](/\ SegmentOf(post.closedListeners, post.listeners)
          /\ \A i, j \in 1..Len(post.closedListeners) :
                post.closedListeners[i] = post.closedListeners[j] => i = j
          /\ post.closedListeners # <<>>
                => post.closedListeners[1] = post.listeners[1]
          /\ post.pc = "returned" => post.closedListeners = post.listeners
          /\ \A l \in PostListeners :
                ListenerClosed(l)
                   => \A k \in 1..Len(post.posted) :
                         RegisteredBefore(l, k) => GotPosted(l, k))
    /\ [][\A l \in PostListeners :
            ListenerClosed(l) => post'.delivered[l] = post.delivered[l]]_vars

\* both listeners were registered and both runs sent before Close; the
\* goroutine has returned, and each listener got both runs
ClosedAfterTwoRuns ==
    /\ post.pc = "returned"
    /\ Len(post.closedListeners) = 2
    /\ Len(post.posted) = 2
    /\ \A l \in PostListeners :
          post.since[l] = 0 /\ Len(post.delivered[l]) = 2

----------------------------------------------------------------------------
(* C32: processRun returns *)

\* C32: processRun and its upload goroutine do not stay blocked: in a state
\* where no step of theirs can be taken, processRun has returned, the
\* goroutine has completed its send on finished, and no Read of the request
\* body waits on readerChan; and when processRun has returned, ioLock is
\* unlocked, once.
ProcessRunAlwaysReturns ==
    /\ ~ENABLED UploadNext
          => /\ grade.pc = "returned"
             /\ grade.up = "done"
             /\ grade.rd # "blocked"
    /\ grade.pc = "returned" => ~grade.ioLock /\ grade.released = 1

----------------------------------------------------------------------------
(* C33: the body of the upload *)

\* C33: the first Read returns the brace, without the reader and while
\* processRun is where it was; nothing more is returned before the reader
\* is supplied; what the Reads return is the beginning of the supplied
\* bytes, and all of them once the end is reached; and a reader that does
\* not begin with a brace makes the Read fail, nothing of it being returned.
UploadFollowsProtocol ==
    /\ [](/\ grade.hasRead => grade.sent # <<>> /\ Head(grade.sent) = "{"
          /\ ~grade.supplied => grade.sent \in {<<>>, <<"{">>}
          /\ grade.rd = "blocked" => grade.hasRead /\ ~grade.supplied
          /\ BraceRead(grade.body)
                => grade.sent = Taken(grade.body, Len(grade.sent))
          /\ grade.rd = "eof" => grade.sent = grade.body
          /\ grade.supplied /\ ~BraceRead(grade.body)
                => /\ grade.readErr
                   /\ grade.rd = "failed"
                   /\ grade.sent = <<"{">>
          /\ grade.readErr => grade.supplied /\ ~BraceRead(grade.body))
    /\ [][~grade.hasRead /\ grade'.hasRead
            => /\ grade'.sent = <<"{">>
               /\ ~grade'.supplied
               /\ grade'.pc = grade.pc]_vars

\* the whole of an encoded result has been read
EncodedResultRead ==
    /\ grade.rd = "eof"
    /\ grade.body = EncodeJSON(<<"A", "C">>)
    /\ grade.sent = grade.body

----------------------------------------------------------------------------
(* C34: the tasks of a case and their messages *)

\* the binaries of the case that are not the validator's
Regular == {b \in DOMAIN grade.binaries : grade.binaries[b] # binaryValidator}

\* the binaries whose task was launched
Launched == {b \in DOMAIN grade.task : grade.task[b].pc # "none"}

\* the aggregation of the case is over
CaseAggregated == grade.pc \in {"closed", "done"}

\* C34: regularBinaryCount is the number of binaries that are not the
\* validator's; a task is launched for each of them and for no other; the
\* channel holds at most one message; every message received comes from a
\* task that has completed its send, and none is received twice; the
\* channel is closed after all tasks have sent and all messages were
\* received, and no task sends on the closed channel.
EveryTaskSendsOnce ==
    /\ grade.regularBinaryCount = Cardinality(Regular)
    /\ Launched \subseteq Regular
    /\ grade.pc # "launch" => Launched = Regular
    /\ Len(grade.metaChan) <= 1
    /\ Len(grade.received) = grade.i
    /\ \A k, l \in 1..Len(grade.received) :
          grade.received[k] = grade.received[l] => k = l
    /\ \A k \in 1..Len(grade.received) :
          grade.task[grade.received[k]].pc = "done"
    /\ \A b \in DOMAIN grade.task : grade.task[b].pc # "panic"
    /\ grade.closed
          => /\ Range(grade.received) = Regular
             /\ grade.metaChan = <<>>
             /\ \A b \in Regular : grade.task[b].pc = "done"

\* the channel of a case with three tasks and a validator was closed
ThreeTasksAggregated ==
    /\ grade.closed
    /\ Len(grade.received) = 3
    /\ Len(grade.binaries) = 4

----------------------------------------------------------------------------
(* C35: the list of generated files *)

\* C35: after the aggregation of a case, generatedFiles holds the .out,
\* .err and .meta path of every binary of the case that is not the
\* validator's.
EveryArtifactListed ==
    CaseAggregated
       => \A b \in Regular :
             Range(Paths(grade.j, b)) \subseteq Range(grade.generatedFiles)

----------------------------------------------------------------------------
(* C36: the verdict of an interactive case *)

\* C36: after the aggregation of a case with a problem-setter binary, the
\* verdict of the case is the problem-setter's when that is not OK, and
\* otherwise the first verdict other than OK received from a contestant
\* binary, or OK.
DriverVerdictDominates ==
    CaseAggregated /\ grade.hasParent
       => grade.chosenMetadata.Verdict =
             IF grade.parentMetadata.Verdict # "OK"
             THEN grade.parentMetadata.Verdict
             ELSE LET bad == {k \in 1..Len(grade.received) :
                                /\ grade.binaries[grade.received[k]]
                                      = binaryContestant
                                /\ grade.task[grade.received[k]].meta.Verdict
                                      # "OK"} IN
                  IF bad = {} THEN "OK"
                  ELSE grade.task[grade.received[
                          CHOOSE k \in bad : \A l \in bad : k <= l]].meta.Verdict

----------------------------------------------------------------------------
(* C37: the time and the memory of a case *)

\* the contestant binaries of the case
ContestantTasks ==
    {b \in DOMAIN grade.binaries : grade.binaries[b] = binaryContestant}

\* the largest of a set of numbers, 0 for none
Largest(S) == IF S = {} THEN 0 ELSE CHOOSE x \in S : \A y \in S : y <= x

\* the sum of the times, or wall times, of the binaries of S
RECURSIVE TimeOf(_)
TimeOf(S) ==
    IF S = {} THEN 0
    ELSE LET b == CHOOSE x \in S : TRUE IN
         Add(TimeOf(S \ {b}), grade.task[b].meta.Time)

RECURSIVE WallTimeOf(_)
WallTimeOf(S) ==
    IF S = {} THEN 0
    ELSE LET b == CHOOSE x \in S : TRUE IN
         Add(WallTimeOf(S \ {b}), grade.task[b].meta.WallTime)

\* C37: after the aggregation of a case, its memory is the largest memory
\* reported by a contestant binary, its time and wall time are the sums of
\* theirs; and when the case is recorded, the memory of the run is the
\* largest memory of its cases.
CaseMemoryIsMaximum ==
    /\ CaseAggregated
          => /\ grade.chosenMetadata.Memory =
                   Largest({grade.task[b].meta.Memory : b \in ContestantTasks})
             /\ grade.chosenMetadata.Time = TimeOf(ContestantTasks)
             /\ grade.chosenMetadata.WallTime = WallTimeOf(ContestantTasks)
    /\ grade.pc = "done"
          => grade.runResult.Memory =
                Largest({grade.caseResults[k].Meta.Memory :
                           k \in DOMAIN grade.caseResults})

----------------------------------------------------------------------------
(* C38: the cases after the wall-time guard has fired *)

\* the n-th case, in the order of declaration, has been through the
\* execution phase
Executed(n) == n <= Len(InOrder) /\ InOrder[n].run # ""

\* the guard gave the n-th case its verdict
Guarded(n) == Executed(n) /\ ~InOrder[n].sandboxed

\* C38: the wall time of the run is that of the cases that went through the
\* execution phase; a case before which it exceeds the limit is not run in
\* the sandbox and gets a TLE, and so does every case after it, of any
\* group; a step of the execution phase taken over the limit runs no case;
\* and from then on the verdict of the run is TLE or worse.
GuardStaysFired ==
    /\ [](grade.pc \in {"run", "validate", "group", "finish", "done"}
            => /\ \E n \in 1..(Len(InOrder) + 1) :
                     /\ \A m \in 1..Len(InOrder) : Executed(m) <=> m < n
                     /\ grade.runResult.WallTime = WallBefore(InOrder, n)
               /\ \A n \in 1..Len(InOrder) :
                     /\ Executed(n)
                        /\ WallBefore(InOrder, n)
                              > WallTimeLimitOf(grade.OverallWallTimeLimit)
                           => Guarded(n)
                     /\ Guarded(n)
                           => /\ InOrder[n].run = "TLE"
                              /\ Rank(grade.runResult.Verdict) <= Rank("TLE")
                              /\ \A m \in n..Len(InOrder) :
                                    Executed(m) => Guarded(m))
    /\ [][/\ grade.pc = "run"
          /\ grade.runResult.WallTime
                > WallTimeLimitOf(grade.OverallWallTimeLimit)
          => /\ grade'.executed = grade.executed
             /\ grade'.runResult.WallTime = grade.runResult.WallTime]_vars

\* the guard fired after the only case of the first group, and both cases
\* of the second group got its TLE; the run is graded
SecondGroupNotExecuted ==
    /\ Graded
    /\ Len(grade.Cases) = 2
    /\ InOrder[1].sandboxed /\ InOrder[1].run = "OK"
    /\ Guarded(2) /\ Guarded(3)
    /\ grade.runResult.Verdict = "TLE"

----------------------------------------------------------------------------
(* C39: the verdict Grade returns after the validation phase *)

\* every case was scored by the validator, with the score 1
EveryCaseScoredOne ==
    \A c \in CaseIds :
        /\ grade.caseResults[c[1]][c[2]].Verdict = "AC"
        /\ grade.caseResults[c[1]][c[2]].Score = One

\* C39: a grade that went through the validation phase and returns no error
\* does not return the verdict OK, nor PA with the Score 0; with AC it
\* returns Score = 1 and ContestScore = MaxScore; and it returns AC only
\* when every case was scored 1 by the validator.
ReturnsACOnlyForFullScore ==
    Graded /\ ~grade.err
       => /\ grade.runResult.Verdict # "OK"
          /\ ~(grade.runResult.Verdict = "PA" /\ grade.runResult.Score = 0)
          /\ grade.runResult.Verdict = "AC"
                => /\ grade.runResult.Score = One
                   /\ grade.runResult.ContestScore = grade.runResult.MaxScore
                   /\ EveryCaseScoredOne

----------------------------------------------------------------------------
(* C40: worseVerdict and a string that is no verdict *)

\* C40: worseVerdict of a string that is none of the eleven verdicts and
\* of any verdict, in either order, returns, and what it returns is the
\* string that is no verdict.
UnknownVerdictIsWorst ==
    grade.pc = "merged" /\ grade.a \notin Verdicts /\ grade.b \in Verdicts
        => /\ grade.ab # IndexOutOfRange /\ grade.ba # IndexOutOfRange
           /\ grade.ab = grade.a /\ grade.ba = grade.a

============================================================================
